---- MODULE Spec2Model ----
(***************************************************************************)
(* Verification model of the syscry backend: market prediction and risk    *)
(* sizing (ml/market_predictor.py), direction prediction                   *)
(* (model/predict.py), signal generation (indicators/signals.py,           *)
(* services/signal_service.py), the market-data fetcher with its TTL cache *)
(* and circuit breaker (indicators/signals.py, cache.py, exceptions.py).   *)
(*                                                                         *)
(* Numbers are fixed point.  Unless said otherwise:                        *)
(*   probability, confidence        hundredths       (0.65  -> 65)         *)
(*   sentiment                      tenths           (-1.0  -> -10)        *)
(*   prices, stop_loss, take_profit hundredths       (100.0 -> 10000)      *)
(*   atr                            ten-thousandths  (2.0   -> 20000)      *)
(*   volatility                     thousandths      (0.02  -> 20)         *)
(*   volume_ratio                   tenths           (1.5   -> 15)         *)
(*   account balance                tenths           (10000 -> 100000)     *)
(*   risk_per_trade                 thousandths      (0.02  -> 20)         *)
(*   min_leverage, max_leverage     thousandths      (10.0  -> 10000)      *)
(*   returned leverage              hundredths       (round(x, 2))         *)
(* An optional number is <<>> (Python None) or <<v>>.  Intermediate values *)
(* are exact rationals <<n, d>>; Python's round() is round-half-even.      *)
(***************************************************************************)
EXTENDS Integers, Sequences, FiniteSets, TLC

VARIABLES
    call,               \* pure-function harness: the invocation being made
    ret,                \* pure-function harness: what it returned (or raised)
    model_cache,        \* model/predict.py _model_cache: key -> artifact
    artifact_store,     \* the files under ml/models, per cache key
    df,                 \* the indicator frame handed to predict_direction
    predict_ret,        \* what the last predict_direction call returned
    cache,              \* cache.py SimpleCache._cache: key -> entry
    state,              \* CircuitBreaker.state
    failure_count,      \* CircuitBreaker.failure_count
    last_failure_time,  \* CircuitBreaker.last_failure_time
    now,                \* time.time(), in seconds
    fetch_ret,          \* what the last fetch_market_data call returned
    pc,                 \* concurrent callers: thread -> where it stands
    is_running,         \* TradingService.is_running
    stop_event,         \* trading_service._stop_event is set
    heap                \* DataFrame objects: reference -> columns and rows

harnessVars == << call, ret >>
predictVars == << model_cache, artifact_store, df, predict_ret >>
fetchVars == << cache, state, failure_count, last_failure_time, now,
                fetch_ret >>
procVars == << pc, is_running, stop_event, heap >>
vars == << call, ret, model_cache, artifact_store, df, predict_ret, cache,
           state, failure_count, last_failure_time, now, fetch_ret, pc,
           is_running, stop_event, heap >>

----------------------------------------------------------------------------
(* Generic helpers                                                          *)

None == <<>>
Some(v) == <<v>>
IsNone(x) == x = <<>>
Val(x) == x[1]

NoSignal == "None"
NoRaise == "None"

Abs(x) == IF x < 0 THEN -x ELSE x
Min(a, b) == IF a <= b THEN a ELSE b
Max(a, b) == IF a >= b THEN a ELSE b

RECURSIVE GCD(_, _)
GCD(a, b) == IF b = 0 THEN Abs(a) ELSE GCD(b, a % b)

\* Rationals <<n, d>> with d > 0, kept in lowest terms.
Norm(n, d) ==
    LET g == GCD(Abs(n), Abs(d))
        s == IF d < 0 THEN -1 ELSE 1
    IN  << (s * n) \div g, (s * d) \div g >>

RMul(a, b) ==
    LET g1 == GCD(Abs(a[1]), b[2])
        g2 == GCD(Abs(b[1]), a[2])
        h1 == IF g1 = 0 THEN 1 ELSE g1
        h2 == IF g2 = 0 THEN 1 ELSE g2
    IN  Norm((a[1] \div h1) * (b[1] \div h2), (a[2] \div h2) * (b[2] \div h1))

\* a / b for b # 0
RDiv(a, b) == RMul(a, Norm(b[2], b[1]))
RAdd(a, b) == Norm(a[1] * b[2] + b[1] * a[2], a[2] * b[2])
RSub(a, b) == Norm(a[1] * b[2] - b[1] * a[2], a[2] * b[2])
RLeq(a, b) == a[1] * b[2] <= b[1] * a[2]
RLess(a, b) == a[1] * b[2] < b[1] * a[2]
RMin(a, b) == IF RLeq(a, b) THEN a ELSE b
RMax(a, b) == IF RLeq(b, a) THEN a ELSE b

\* Python round(): nearest integer to n/d, ties to the even neighbour.
RoundHalfEven(n, d) ==
    LET q == n \div d
        r == n % d
    IN  IF 2 * r > d THEN q + 1
        ELSE IF 2 * r < d THEN q
        ELSE IF q % 2 = 0 THEN q ELSE q + 1

\* round(x, 2) of the rational x, in hundredths
Round2(x) ==
    LET y == RMul(x, <<100, 1>>) IN RoundHalfEven(y[1], y[2])

\* floor(p * 10^k / q) and the remainder, by long division (0 <= p < q)
RECURSIVE ScaledDiv(_, _, _)
ScaledDiv(p, q, k) ==
    IF k = 0 THEN << p \div q, p % q >>
    ELSE LET prev == ScaledDiv(p, q, k - 1)
         IN  << prev[1] * 10 + (prev[2] * 10) \div q, (prev[2] * 10) % q >>

Pow8 == 100000000

\* floor of the non-negative rational x to 8 decimals: <<whole, 1e-8 units>>
Floor8(x) ==
    << x[1] \div x[2], ScaledDiv(x[1] % x[2], x[2], 8)[1] >>

\* round(x, 8) of the non-negative rational x: <<whole, 1e-8 units>>
Round8(x) ==
    LET w == x[1] \div x[2]
        sd == ScaledDiv(x[1] % x[2], x[2], 8)
        f == sd[1]
        r == sd[2]
        up == \/ 2 * r > x[2]
              \/ (2 * r = x[2] /\ f % 2 = 1)
        f2 == IF up THEN f + 1 ELSE f
    IN  IF f2 = Pow8 THEN << w + 1, 0 >> ELSE << w, f2 >>

\* a <= b for <<whole, 1e-8 units>> pairs
PairLeq(a, b) == a[1] < b[1] \/ (a[1] = b[1] /\ a[2] <= b[2])

----------------------------------------------------------------------------
(* ml/market_predictor.py : Signal, MarketPredictor                         *)

STRONG_BUY == "STRONG_BUY"
BUY == "BUY"
HOLD == "HOLD"
SELL == "SELL"
STRONG_SELL == "STRONG_SELL"
Signal == {STRONG_BUY, BUY, HOLD, SELL, STRONG_SELL}

\* predict_signal, regime and volume flags (lines 93-100)
is_trending(adx) == IsNone(adx) \/ Val(adx) > 25
is_strong_trend(adx) == ~IsNone(adx) /\ Val(adx) > 40
is_ranging(adx) == ~IsNone(adx) /\ Val(adx) < 20
has_volume(volume_ratio) == IsNone(volume_ratio) \/ Val(volume_ratio) > 10
has_strong_volume(volume_ratio) == ~IsNone(volume_ratio) /\ Val(volume_ratio) > 15

\* np.clip(x, lo, hi) == minimum(maximum(x, lo), hi)
Clip(x, lo, hi) == Min(Max(x, lo), hi)

\* Variant of the sentiment adjustment that shifts twice as far
adjusted_prob_DoubleShift(probability, sentiment) ==
    IF IsNone(sentiment) THEN probability
    ELSE Clip(probability + 2 * Val(sentiment), 0, 100)

\* predict_signal, sentiment adjustment (lines 103-106)
adjusted_prob(probability, sentiment) ==
    IF IsNone(sentiment) THEN probability
    ELSE Clip(probability + Val(sentiment), 0, 100)

\* predict_signal, confluence scoring (lines 109-159); a is the argument
\* record.  Returns the two scores.
ConfluenceScores(a) ==
    LET p == adjusted_prob(a.probability, a.sentiment)
        trend == is_trending(a.adx)
        \* 1. ML probability
        b1 == IF p > 65 THEN 3 ELSE IF p > 55 THEN 1 ELSE 0
        s1 == IF p > 55 THEN 0
              ELSE IF p < 35 THEN 3 ELSE IF p < 45 THEN 1 ELSE 0
        \* 2. RSI, contrarian
        b2 == IF a.rsi < 30 THEN 2 ELSE IF a.rsi < 40 THEN 1 ELSE 0
        s2 == IF a.rsi < 40 THEN 0
              ELSE IF a.rsi > 70 THEN 2 ELSE IF a.rsi > 60 THEN 1 ELSE 0
        \* 3. price vs EMA: ema_distance = (price - ema20) / ema20 vs +-0.02
        above == a.ema20 > 0 /\ 50 * (a.price - a.ema20) > a.ema20
        below == a.ema20 > 0 /\ 50 * (a.price - a.ema20) < -a.ema20
        b3 == IF above THEN (IF trend THEN 2 ELSE 1) ELSE 0
        s3 == IF ~above /\ below THEN (IF trend THEN 2 ELSE 1) ELSE 0
        \* 4. MACD
        b4 == IF ~IsNone(a.macd) /\ Val(a.macd) > 0 THEN 1 ELSE 0
        s4 == IF ~IsNone(a.macd) /\ Val(a.macd) < 0 THEN 1 ELSE 0
        \* 5. stochastic
        b5 == IF ~IsNone(a.stoch_k) /\ Val(a.stoch_k) < 20 THEN 1 ELSE 0
        s5 == IF ~IsNone(a.stoch_k) /\ Val(a.stoch_k) > 80 THEN 1 ELSE 0
        b == b1 + b2 + b3 + b4 + b5
        s == s1 + s2 + s3 + s4 + s5
        \* 6. volume bonus to the leading side
        b6 == IF has_strong_volume(a.volume_ratio) /\ b > s THEN 1 ELSE 0
        s6 == IF has_strong_volume(a.volume_ratio) /\ ~(b > s) /\ s > b
              THEN 1 ELSE 0
    IN  [buy_score |-> b + b6, sell_score |-> s + s6]

\* Variant of the signal decision with the ranging RSI gates at 30 / 70
SignalDecision_RangingRsi30(a, sc) ==
    IF is_ranging(a.adx)
    THEN IF a.rsi < 30 /\ sc.buy_score >= 4 THEN BUY
         ELSE IF a.rsi > 70 /\ sc.sell_score >= 4 THEN SELL
         ELSE HOLD
    ELSE IF sc.buy_score >= 6 /\ is_strong_trend(a.adx)
            /\ has_volume(a.volume_ratio) THEN STRONG_BUY
    ELSE IF sc.sell_score >= 6 /\ is_strong_trend(a.adx)
            /\ has_volume(a.volume_ratio) THEN STRONG_SELL
    ELSE IF sc.buy_score >= 4 /\ is_trending(a.adx) THEN BUY
    ELSE IF sc.sell_score >= 4 /\ is_trending(a.adx) THEN SELL
    ELSE HOLD

\* Variant of the signal decision without the trend gate on regular signals
SignalDecision_NoTrendGate(a, sc) ==
    IF is_ranging(a.adx)
    THEN IF a.rsi < 25 /\ sc.buy_score >= 4 THEN BUY
         ELSE IF a.rsi > 75 /\ sc.sell_score >= 4 THEN SELL
         ELSE HOLD
    ELSE IF sc.buy_score >= 6 /\ is_strong_trend(a.adx)
            /\ has_volume(a.volume_ratio) THEN STRONG_BUY
    ELSE IF sc.sell_score >= 6 /\ is_strong_trend(a.adx)
            /\ has_volume(a.volume_ratio) THEN STRONG_SELL
    ELSE IF sc.buy_score >= 4 THEN BUY
    ELSE IF sc.sell_score >= 4 THEN SELL
    ELSE HOLD

\* predict_signal, signal decision (lines 161-185)
SignalDecision(a, sc) ==
    IF is_ranging(a.adx)
    THEN IF a.rsi < 25 /\ sc.buy_score >= 4 THEN BUY
         ELSE IF a.rsi > 75 /\ sc.sell_score >= 4 THEN SELL
         ELSE HOLD
    ELSE IF sc.buy_score >= 6 /\ is_strong_trend(a.adx)
            /\ has_volume(a.volume_ratio) THEN STRONG_BUY
    ELSE IF sc.sell_score >= 6 /\ is_strong_trend(a.adx)
            /\ has_volume(a.volume_ratio) THEN STRONG_SELL
    ELSE IF sc.buy_score >= 4 /\ is_trending(a.adx) THEN BUY
    ELSE IF sc.sell_score >= 4 /\ is_trending(a.adx) THEN SELL
    ELSE HOLD

predict_signal(a) == SignalDecision(a, ConfluenceScores(a))

\* Variant of calculate_leverage without the np.clip to the configured range
calculate_leverage_Unclipped(cfg, probability, volatility, signal) ==
    IF signal = HOLD THEN 100
    ELSE
      LET confidence == Abs(probability - 50) * 2
          volatility_factor == 100 - Clip(volatility, 0, 80)
          base == 10000000
                  + confidence * volatility_factor * (cfg.max_leverage - 1000)
          boosted == IF signal \in {STRONG_BUY, STRONG_SELL}
                     THEN base * 12 ELSE base * 10
      IN  RoundHalfEven(boosted, 1000000)

\* calculate_leverage (lines 187-227): probability in hundredths,
\* volatility in thousandths, cfg.min_leverage / cfg.max_leverage in
\* thousandths; the result is round(leverage, 2) in hundredths.
calculate_leverage(cfg, probability, volatility, signal) ==
    IF signal = HOLD THEN 100
    ELSE
      LET confidence == Abs(probability - 50) * 2            \* hundredths
          volatility_factor == 100 - Clip(volatility, 0, 80) \* hundredths
          \* base_leverage over 10^7
          base == 10000000
                  + confidence * volatility_factor * (cfg.max_leverage - 1000)
          \* over 10^8, after the 1.2 boost of strong signals
          boosted == IF signal \in {STRONG_BUY, STRONG_SELL}
                     THEN base * 12 ELSE base * 10
          leverage == Clip(boosted, cfg.min_leverage * 100000,
                           cfg.max_leverage * 100000)
      IN  RoundHalfEven(leverage, 1000000)

\* Variant of calculate_stop_loss_take_profit with multipliers 2 and 3
\* calculate_kelly_criterion (lines 269-299).  win_rate in hundredths,
\* avg_win and avg_loss in tenths; the value is an exact fraction.  A float
\* division by zero raises ZeroDivisionError.
calculate_kelly_criterion(win_rate, avg_win, avg_loss) ==
    IF avg_loss = 0 \/ win_rate = 0
    THEN [raised |-> NoRaise, value |-> Some(<<0, 1>>)]
    ELSE LET win_loss_ratio == Norm(avg_win, avg_loss)
         IN  IF win_loss_ratio[1] = 0
             THEN [raised |-> "ZeroDivisionError", value |-> None]
             ELSE LET kelly == RSub(Norm(win_rate, 100),
                                    RDiv(Norm(100 - win_rate, 100),
                                         win_loss_ratio))
                      conservative_kelly == RMul(kelly, <<1, 4>>)
                  IN  [raised |-> NoRaise,
                       value |-> Some(RMax(<<0, 1>>,
                                      RMin(conservative_kelly, <<1, 10>>)))]

calculate_stop_loss_take_profit_Wide(entry_price, signal, atr, risk_reward_ratio) ==
    LET atr_multiplier == IF signal \in {STRONG_BUY, STRONG_SELL}
                          THEN <<2, 1>> ELSE <<3, 1>>
        stop_distance == RMul(Norm(atr, 10000), atr_multiplier)
        entry == Norm(entry_price, 100)
        rr == Norm(risk_reward_ratio, 10)
    IN  IF signal \in {BUY, STRONG_BUY}
        THEN [stop_loss |-> Some(Round2(RSub(entry, stop_distance))),
              take_profit |-> Some(Round2(RAdd(entry, RMul(stop_distance, rr)))),
              risk_reward_ratio |-> risk_reward_ratio,
              stop_distance |-> Some(Round2(stop_distance))]
        ELSE IF signal \in {SELL, STRONG_SELL}
        THEN [stop_loss |-> Some(Round2(RAdd(entry, stop_distance))),
              take_profit |-> Some(Round2(RSub(entry, RMul(stop_distance, rr)))),
              risk_reward_ratio |-> risk_reward_ratio,
              stop_distance |-> Some(Round2(stop_distance))]
        ELSE [stop_loss |-> None, take_profit |-> None,
              risk_reward_ratio |-> 0, stop_distance |-> None]

\* calculate_stop_loss_take_profit (lines 301-346): entry in hundredths,
\* atr in ten-thousandths, risk_reward_ratio in tenths.
calculate_stop_loss_take_profit(entry_price, signal, atr, risk_reward_ratio) ==
    LET atr_multiplier == IF signal \in {STRONG_BUY, STRONG_SELL}
                          THEN <<3, 2>> ELSE <<2, 1>>
        stop_distance == RMul(Norm(atr, 10000), atr_multiplier)
        entry == Norm(entry_price, 100)
        rr == Norm(risk_reward_ratio, 10)
    IN  IF signal \in {BUY, STRONG_BUY}
        THEN [stop_loss |-> Some(Round2(RSub(entry, stop_distance))),
              take_profit |-> Some(Round2(RAdd(entry, RMul(stop_distance, rr)))),
              risk_reward_ratio |-> risk_reward_ratio,
              stop_distance |-> Some(Round2(stop_distance))]
        ELSE IF signal \in {SELL, STRONG_SELL}
        THEN [stop_loss |-> Some(Round2(RAdd(entry, stop_distance))),
              take_profit |-> Some(Round2(RSub(entry, RMul(stop_distance, rr)))),
              risk_reward_ratio |-> risk_reward_ratio,
              stop_distance |-> Some(Round2(stop_distance))]
        ELSE [stop_loss |-> None, take_profit |-> None,
              risk_reward_ratio |-> 0, stop_distance |-> None]

\* The numeric kinds a price can arrive as: a Python float (a division by
\* zero raises ZeroDivisionError) or a numpy.float64 taken from a DataFrame
\* row (a division by zero yields inf with a RuntimeWarning).
NumericKinds == {"float", "float64"}

\* Variant of the position value without the leverage cap
position_value_Uncapped(cfg, account_balance, entry_price, stop_loss_price, leverage) ==
    LET risk_per_unit == Norm(Abs(entry_price - stop_loss_price), 100)
        max_risk == Norm(account_balance * cfg.risk_per_trade, 10000)
    IN  RMul(RDiv(max_risk, risk_per_unit), Norm(entry_price, 100))

\* calculate_position_size, the unrounded position value (lines 249-257);
\* risk_per_unit > 0.
position_value(cfg, account_balance, entry_price, stop_loss_price, leverage) ==
    LET risk_per_unit == Norm(Abs(entry_price - stop_loss_price), 100)
        max_risk == Norm(account_balance * cfg.risk_per_trade, 10000)
        uncapped == RMul(RDiv(max_risk, risk_per_unit), Norm(entry_price, 100))
        cap == RMul(Norm(account_balance, 10), Norm(leverage, 100))
    IN  RMin(uncapped, cap)

\* calculate_position_size (lines 229-267): balance in tenths, prices and
\* leverage in hundredths, cfg.risk_per_trade in thousandths; entry_price > 0,
\* account_balance > 0, leverage > 0.
calculate_position_size(cfg, account_balance, entry_price, stop_loss_price, leverage, kind) ==
    LET max_risk == Norm(account_balance * cfg.risk_per_trade, 10000)
        cap == RMul(Norm(account_balance, 10), Norm(leverage, 100))
        \* entry_price == stop_loss_price: max_risk / 0.0
        pv == IF entry_price = stop_loss_price
              THEN cap      \* float64 only: min(inf * entry_price, cap)
              ELSE position_value(cfg, account_balance, entry_price,
                                  stop_loss_price, leverage)
        quantity == RDiv(pv, Norm(entry_price, 100))
    IN  IF entry_price = stop_loss_price /\ kind = "float"
        THEN [raised |-> "ZeroDivisionError",
              position_size |-> None, quantity |-> None,
              risk_amount |-> None, capital_required |-> None]
        ELSE [raised |-> NoRaise,
              position_size |-> Some(Round2(pv)),
              quantity |-> Some(Round8(quantity)),
              risk_amount |-> Some(Round2(max_risk)),
              capital_required |-> Some(Round2(RDiv(pv, Norm(leverage, 100))))]

\* generate_prediction (lines 348-424); ind is the indicators dict.  Keys
\* that **position_info leaves out read as None (prediction.get(key)).
generate_prediction(cfg, probability, price, ind, account_balance, sentiment, kind) ==
    LET signal == predict_signal([probability |-> probability,
                      rsi |-> ind.rsi, price |-> price, ema20 |-> ind.ema20,
                      volatility |-> ind.volatility, sentiment |-> sentiment,
                      adx |-> ind.adx, volume_ratio |-> ind.volume_ratio,
                      macd |-> ind.macd, stoch_k |-> ind.stoch_k])
        leverage == calculate_leverage(cfg, probability, ind.volatility, signal)
        sl_tp == calculate_stop_loss_take_profit(price, signal, ind.atr, 20)
        sized == signal # HOLD /\ ~IsNone(sl_tp.stop_loss)
        position_info ==
            IF sized
            THEN calculate_position_size(cfg, account_balance, price,
                                         Val(sl_tp.stop_loss), leverage, kind)
            ELSE [raised |-> NoRaise, position_size |-> None,
                  quantity |-> None, risk_amount |-> None,
                  capital_required |-> None]
    IN  IF position_info.raised # NoRaise
        THEN [raised |-> position_info.raised, signal |-> NoSignal,
              probability |-> None, confidence |-> None, leverage |-> None,
              stop_loss |-> None, take_profit |-> None,
              risk_reward_ratio |-> 0, sentiment |-> sentiment,
              position_size |-> None, quantity |-> None,
              risk_amount |-> None, capital_required |-> None]
        ELSE [raised |-> NoRaise, signal |-> signal,
              probability |-> Some(probability),
              confidence |-> Some(Abs(probability - 50) * 2),
              leverage |-> Some(leverage),
              stop_loss |-> sl_tp.stop_loss,
              take_profit |-> sl_tp.take_profit,
              risk_reward_ratio |-> sl_tp.risk_reward_ratio,
              sentiment |-> sentiment,
              position_size |-> position_info.position_size,
              quantity |-> position_info.quantity,
              risk_amount |-> position_info.risk_amount,
              capital_required |-> position_info.capital_required]

----------------------------------------------------------------------------
(* Harness for the pure operations: Init draws one invocation, the action  *)
(* of the invoked operation computes what it returns.                      *)

Pending == [op |-> "pending"]

\* The parts of the system a specification does not exercise stay idle.
HarnessIdle == call = [op |-> "none"] /\ ret = [op |-> "none"]
PredictIdle ==
    /\ model_cache = << >>
    /\ artifact_store = << >>
    /\ df = [ema |-> "absent", rsi |-> "absent", macd |-> "absent",
             vol |-> "absent"]
    /\ predict_ret = [op |-> "none"]
FetchIdle ==
    /\ cache = << >>
    /\ state = "CLOSED"
    /\ failure_count = 0
    /\ last_failure_time = None
    /\ now = 0
    /\ fetch_ret = [op |-> "none"]
ProcIdle ==
    /\ pc = << >>
    /\ is_running = FALSE
    /\ stop_event = FALSE
    /\ heap = << >>

\* --- predict_signal -------------------------------------------------------

ProbabilityValues == {30, 40, 50, 60, 70}
RsiValues == {20, 28, 35, 50, 65, 72, 80}
PriceEmaValues == {<<10000, 10000>>, <<10300, 10000>>, <<9700, 10000>>}
SentimentValues == {None, Some(-10), Some(10)}
AdxValues == {None, Some(15), Some(20), Some(26), Some(40), Some(41)}
VolumeRatioValues == {None, Some(10), Some(16)}
MacdValues == {None, Some(-1), Some(1)}
StochValues == {None, Some(10), Some(90)}

PredictSignalCalls ==
    { [op |-> "predict_signal",
       a |-> [probability |-> p, rsi |-> r, price |-> pe[1], ema20 |-> pe[2],
              volatility |-> 20, sentiment |-> s, adx |-> x,
              volume_ratio |-> v, macd |-> m, stoch_k |-> k]] :
        p \in ProbabilityValues, r \in RsiValues, pe \in PriceEmaValues,
        s \in SentimentValues, x \in AdxValues, v \in VolumeRatioValues,
        m \in MacdValues, k \in StochValues }

\* The calls of tests/test_market_predictor.py (only the five required
\* arguments, optionally a sentiment) and their neighbours
TestPredictSignalCalls ==
    { [op |-> "predict_signal",
       a |-> [probability |-> p, rsi |-> r, price |-> pe[1], ema20 |-> pe[2],
              volatility |-> 20, sentiment |-> s, adx |-> None,
              volume_ratio |-> None, macd |-> None, stoch_k |-> None]] :
        p \in {5, 25, 50, 55, 75, 95}, r \in {35, 45, 50, 65},
        pe \in { <<10000, 9500>>, <<10000, 10500>>, <<10000, 10000>> },
        s \in {None, Some(-10), Some(-5), Some(0), Some(5), Some(10)} }

Init_Signal ==
    /\ call \in PredictSignalCalls \cup TestPredictSignalCalls
    /\ ret = Pending
    /\ PredictIdle
    /\ FetchIdle
    /\ ProcIdle

PredictSignal ==
    /\ call.op = "predict_signal"
    /\ ret = Pending
    /\ ret' = [op |-> "predict_signal", signal |-> predict_signal(call.a)]
    /\ UNCHANGED << call, predictVars, fetchVars, procVars >>

Next_Signal == PredictSignal

SpecSignal == Init_Signal /\ [][Next_Signal]_vars

\* --- leverage, stop/target, position size, full prediction ----------------

LeverageConfigs ==
    { [min_leverage |-> 1000, max_leverage |-> 10000, risk_per_trade |-> 20],
      [min_leverage |-> 1000, max_leverage |-> 3000, risk_per_trade |-> 20],
      [min_leverage |-> 2000, max_leverage |-> 5000, risk_per_trade |-> 20],
      [min_leverage |-> 1004, max_leverage |-> 2006, risk_per_trade |-> 18] }

DefaultConfig ==
    [min_leverage |-> 1000, max_leverage |-> 10000, risk_per_trade |-> 20]

CalculateLeverageCalls ==
    { [op |-> "calculate_leverage", cfg |-> c, probability |-> p,
       volatility |-> v, signal |-> sg] :
        c \in LeverageConfigs, p \in {0, 20, 35, 50, 65, 80, 100},
        v \in {0, 10, 20, 50, 80, 150}, sg \in Signal }

StopOffsets == {-500, -300, -1, 0, 1, 300}

CalculatePositionSizeCalls ==
    { [op |-> "calculate_position_size", cfg |-> c, account_balance |-> b,
       entry_price |-> e, stop_loss_price |-> e + d, leverage |-> l,
       kind |-> k] :
        c \in {DefaultConfig,
               [min_leverage |-> 1000, max_leverage |-> 10000,
                risk_per_trade |-> 18]},
        b \in {3, 10, 1003, 100000}, e \in {600, 5000, 10000},
        d \in StopOffsets, l \in {100, 200, 1000}, k \in NumericKinds }

GeneratePredictionCalls ==
    { [op |-> "generate_prediction", cfg |-> DefaultConfig,
       probability |-> p, price |-> 10000,
       indicators |-> [rsi |-> r, ema20 |-> e, atr |-> t, volatility |-> 20,
                       adx |-> x, volume_ratio |-> None, macd |-> m,
                       stoch_k |-> None],
       account_balance |-> 100000, sentiment |-> s, kind |-> k] :
        p \in {30, 70, 80}, r \in {25, 50, 75}, e \in {9500, 10500},
        t \in {0, 20, 20000}, x \in {None, Some(45)},
        m \in {None, Some(-1), Some(1)}, s \in {None, Some(5)},
        k \in NumericKinds }

CalculateStopLossTakeProfitCalls ==
    { [op |-> "calculate_stop_loss_take_profit", entry_price |-> e,
       signal |-> sg, atr |-> a, risk_reward_ratio |-> rr] :
        e \in {5, 5000, 10000}, sg \in Signal,
        a \in {0, 20, 14000, 20000}, rr \in {5, 15, 20} }

\* ml/risk_manager.py : Position, RiskManager.  Prices, quantities,
\* balances, equity values and leverages are whole numbers; risk_percent,
\* exposure_percent and the drawdowns are in ten-thousandths,
\* average_leverage in hundredths.
max_portfolio_risk == 1000
max_drawdown == 2000
max_leverage_portfolio == 300

\* round(x, 4) of the rational x, in ten-thousandths
Round4(x) ==
    LET y == RMul(x, <<10000, 1>>) IN RoundHalfEven(y[1], y[2])

\* Position.value (lines 28-31)
Position_value(pos) == pos.quantity * pos.current_price

\* sum(pos.value for pos in positions) (line 98)
RECURSIVE total_exposure(_)
total_exposure(positions) ==
    IF positions = << >> THEN 0
    ELSE Position_value(Head(positions)) + total_exposure(Tail(positions))

\* the loop of lines 101-105: a stop_loss of None or 0 adds nothing
RECURSIVE total_risk(_)
total_risk(positions) ==
    IF positions = << >> THEN 0
    ELSE LET pos == Head(positions)
             risk == IF ~IsNone(pos.stop_loss) /\ Val(pos.stop_loss) # 0
                     THEN Abs(pos.entry_price - Val(pos.stop_loss))
                          * pos.quantity
                     ELSE 0
         IN  risk + total_risk(Tail(positions))

RECURSIVE leverage_sum(_)
leverage_sum(positions) ==
    IF positions = << >> THEN 0
    ELSE Head(positions).leverage + leverage_sum(Tail(positions))

\* RiskManager.calculate_portfolio_risk (lines 75-122): the dictionary for
\* an empty list has no risk_percent and no exposure_percent key.
calculate_portfolio_risk(positions, account_balance) ==
    IF positions = << >>
    THEN [total_risk |-> 0, total_exposure |-> 0, risk_percent |-> None,
          exposure_percent |-> None, average_leverage |-> 100,
          position_count |-> 0]
    ELSE LET avg_leverage == Norm(leverage_sum(positions), Len(positions))
             risk_percent == IF account_balance > 0
                             THEN Norm(total_risk(positions), account_balance)
                             ELSE <<0, 1>>
             exposure_percent ==
                 IF account_balance > 0
                 THEN Norm(total_exposure(positions), account_balance)
                 ELSE <<0, 1>>
         IN  [total_risk |-> total_risk(positions) * 100,
              total_exposure |-> total_exposure(positions) * 100,
              risk_percent |-> Some(Round4(risk_percent)),
              exposure_percent |-> Some(Round4(exposure_percent)),
              average_leverage |-> Round2(avg_leverage),
              position_count |-> Len(positions)]

\* np.maximum.accumulate(equity)[-1]
RECURSIVE running_max(_)
running_max(equity_curve) ==
    IF Len(equity_curve) = 1 THEN equity_curve[1]
    ELSE Max(running_max(SubSeq(equity_curve, 1, Len(equity_curve) - 1)),
             equity_curve[Len(equity_curve)])

\* min over the prefixes of (equity - running_max) / running_max
RECURSIVE min_drawdown(_)
min_drawdown(equity_curve) ==
    LET last == Norm(equity_curve[Len(equity_curve)]
                     - running_max(equity_curve), running_max(equity_curve))
    IN  IF Len(equity_curve) = 1 THEN last
        ELSE RMin(last, min_drawdown(SubSeq(equity_curve, 1,
                                            Len(equity_curve) - 1)))

\* RiskManager.calculate_drawdown (lines 124-161), for positive equity
calculate_drawdown(equity_curve) ==
    IF Len(equity_curve) < 2
    THEN [current_drawdown |-> 0, max_drawdown |-> 0,
          peak_value |-> IF equity_curve = << >> THEN 0
                         ELSE equity_curve[1]]
    ELSE LET peak == running_max(equity_curve)
             current_dd == Norm(equity_curve[Len(equity_curve)] - peak, peak)
         IN  [current_drawdown |-> Round4(current_dd),
              max_drawdown |-> Round4(min_drawdown(equity_curve)),
              peak_value |-> peak]

\* RiskManager.check_risk_limits (lines 163-212).  equity_curve is None or
\* Some(list); warnings lists which limits were exceeded; the lookup of
\* portfolio_risk['risk_percent'] raises KeyError when the key is missing.
check_risk_limits(positions, account_balance, equity_curve) ==
    LET portfolio_risk == calculate_portfolio_risk(positions, account_balance)
        risk_warning ==
            IF Val(portfolio_risk.risk_percent) > max_portfolio_risk
            THEN << "risk" >> ELSE << >>
        leverage_warning ==
            IF portfolio_risk.average_leverage > max_leverage_portfolio
            THEN << "leverage" >> ELSE << >>
        has_curve == ~IsNone(equity_curve) /\ Val(equity_curve) # << >>
        drawdown_info == IF has_curve
                         THEN Some(calculate_drawdown(Val(equity_curve)))
                         ELSE None
        drawdown_warning ==
            IF has_curve
               /\ Abs(Val(drawdown_info).current_drawdown) > max_drawdown
            THEN << "drawdown" >> ELSE << >>
        warnings == risk_warning \o leverage_warning \o drawdown_warning
    IN  IF IsNone(portfolio_risk.risk_percent)
        THEN [raised |-> "KeyError", within_limits |-> None,
              warnings |-> << >>, positions |-> positions]
        ELSE [raised |-> NoRaise, within_limits |-> Some(warnings = << >>),
              warnings |-> warnings, positions |-> positions]

MaxPositions == 2

Positions ==
    { [symbol |-> "BTCUSDT", quantity |-> q, entry_price |-> 100,
       current_price |-> 110, leverage |-> l, stop_loss |-> sl] :
        q \in {1, 10}, l \in {1, 5}, sl \in {None, Some(0), Some(95)} }

PositionLists ==
    UNION { [1..n -> Positions] : n \in 0..MaxPositions }

EquityCurves ==
    { None, Some(<< >>), Some(<<100>>), Some(<<100, 70>>), Some(<<100, 80>>),
      Some(<<100, 120, 90>>) }

CheckRiskLimitsCalls ==
    { [op |-> "check_risk_limits", positions |-> ps, account_balance |-> b,
       equity_curve |-> ec] :
        ps \in PositionLists, b \in {0, 400}, ec \in EquityCurves }

CalculateKellyCriterionCalls ==
    { [op |-> "calculate_kelly_criterion", win_rate |-> w, avg_win |-> aw,
       avg_loss |-> al] :
        w \in {0, 30, 50, 60, 100}, aw \in {0, 5, 10, 20}, al \in {0, 10, 15} }

Init_Risk ==
    /\ call \in CalculateLeverageCalls \cup CalculatePositionSizeCalls
                \cup GeneratePredictionCalls
                \cup CalculateStopLossTakeProfitCalls
                \cup CalculateKellyCriterionCalls
                \cup CheckRiskLimitsCalls
    /\ ret = Pending
    /\ PredictIdle
    /\ FetchIdle
    /\ ProcIdle

CalculateLeverage ==
    /\ call.op = "calculate_leverage"
    /\ ret = Pending
    /\ ret' = [op |-> "calculate_leverage",
               leverage |-> calculate_leverage(call.cfg, call.probability,
                                               call.volatility, call.signal)]
    /\ UNCHANGED << call, predictVars, fetchVars, procVars >>

CalculatePositionSize ==
    /\ call.op = "calculate_position_size"
    /\ ret = Pending
    /\ ret' = [op |-> "calculate_position_size",
               out |-> calculate_position_size(call.cfg, call.account_balance,
                           call.entry_price, call.stop_loss_price,
                           call.leverage, call.kind)]
    /\ UNCHANGED << call, predictVars, fetchVars, procVars >>

GeneratePrediction ==
    /\ call.op = "generate_prediction"
    /\ ret = Pending
    /\ ret' = [op |-> "generate_prediction",
               out |-> generate_prediction(call.cfg, call.probability,
                           call.price, call.indicators, call.account_balance,
                           call.sentiment, call.kind)]
    /\ UNCHANGED << call, predictVars, fetchVars, procVars >>

CalculateStopLossTakeProfit ==
    /\ call.op = "calculate_stop_loss_take_profit"
    /\ ret = Pending
    /\ ret' = [op |-> "calculate_stop_loss_take_profit",
               out |-> calculate_stop_loss_take_profit(call.entry_price,
                           call.signal, call.atr, call.risk_reward_ratio)]
    /\ UNCHANGED << call, predictVars, fetchVars, procVars >>

CalculateKellyCriterion ==
    /\ call.op = "calculate_kelly_criterion"
    /\ ret = Pending
    /\ ret' = [op |-> "calculate_kelly_criterion",
               out |-> calculate_kelly_criterion(call.win_rate, call.avg_win,
                                                 call.avg_loss)]
    /\ UNCHANGED << call, predictVars, fetchVars, procVars >>

CheckRiskLimits ==
    /\ call.op = "check_risk_limits"
    /\ ret = Pending
    /\ ret' = [op |-> "check_risk_limits",
               out |-> check_risk_limits(call.positions, call.account_balance,
                                         call.equity_curve)]
    /\ UNCHANGED << call, predictVars, fetchVars, procVars >>

Next_Risk ==
    \/ CalculateLeverage
    \/ CalculatePositionSize
    \/ GeneratePrediction
    \/ CalculateStopLossTakeProfit
    \/ CalculateKellyCriterion
    \/ CheckRiskLimits

SpecRisk == Init_Risk /\ [][Next_Risk]_vars

----------------------------------------------------------------------------
(* model/predict.py : load_model, predict_direction,                       *)
(* _enhanced_fallback_heuristic                                            *)

\* The frame is described by what the heuristic reads from its last row:
\*   ema : "absent" (no ema20 column, NaN, or empty frame), "above"
\*         (close > ema20), "below" (close <= ema20), "keyerror" (an ema20
\*         column but no close column, df['close'] raises KeyError)
\*   rsi : "absent", "low" (< 30), "high" (> 70), "mid"
\*   macd: "absent", "pos" (> 0), "nonpos"
\*   vol : "absent" (no column, at most 20 rows, NaN or zero mean), "high"
\*         (5-period mean > 1.2 x 20-period mean), "normal"
Frames ==
    [ema : {"absent", "above", "below", "keyerror"},
     rsi : {"absent", "low", "mid", "high"},
     macd : {"absent", "pos", "nonpos"},
     vol : {"absent", "high", "normal"}]

\* random.uniform(-0.03, 0.03), in hundredths
NoiseValues == {-3, 0, 3}

RECURSIVE SumProd(_)
SumProd(sw) ==
    IF sw = << >> THEN 0 ELSE sw[1][1] * sw[1][2] + SumProd(Tail(sw))

RECURSIVE SumWeights(_)
SumWeights(sw) ==
    IF sw = << >> THEN 0 ELSE sw[1][2] + SumWeights(Tail(sw))

\* The <<signal, weight>> pairs the heuristic collects (lines 198-260), in
\* hundredths.
HeuristicSignals(f) ==
    LET s1 == IF f.ema = "above" THEN << <<60, 30>> >>
              ELSE IF f.ema = "below" THEN << <<40, 30>> >>
              ELSE << >>
        s2 == IF f.rsi = "low" THEN << <<65, 25>> >>
              ELSE IF f.rsi = "high" THEN << <<35, 25>> >>
              ELSE IF f.rsi = "mid" THEN << <<50, 25>> >>
              ELSE << >>
        s3 == IF f.macd = "pos" THEN << <<60, 25>> >>
              ELSE IF f.macd = "nonpos" THEN << <<40, 25>> >>
              ELSE << >>
        sofar == s1 \o s2 \o s3
        s4 == IF f.vol = "high"
              THEN IF Len(sofar) > 0
                   THEN IF sofar[Len(sofar)][1] > 50
                        THEN << <<60, 20>> >> ELSE << <<40, 20>> >>
                   ELSE << <<50, 20>> >>
              ELSE IF f.vol = "normal" THEN << <<50, 20>> >>
              ELSE << >>
    IN  sofar \o s4

\* max(0.0, min(1.0, x)) on a rational in hundredths
Clamp01(x) == RMax(<<0, 1>>, RMin(<<100, 1>>, x))

\* _enhanced_fallback_heuristic (lines 186-278): the probability, a rational
\* in hundredths, and whether the except branch produced it.
_enhanced_fallback_heuristic(f, noise) ==
    IF f.ema = "keyerror"
    THEN [prob |-> <<50, 1>>, path |-> "heuristic_except"]
    ELSE LET sw == HeuristicSignals(f)
             avg == IF sw # << >> THEN Norm(SumProd(sw), SumWeights(sw))
                    ELSE <<50, 1>>
         IN  [prob |-> Clamp01(RAdd(avg, <<noise, 1>>)),
              path |-> "heuristic"]

\* A cache key is (symbol_interval, use_ensemble).  For each symbol/interval
\* the store holds an ensemble file and a single-model file, each
\*   "missing"    no such file
\*   "corrupt"    joblib.load raises
\*   "ok"         loads and is logged
\*   "malformed"  loads, but the logger.info line that formats it raises
\*                (not a dict, or a non-numeric accuracy)
\*   "unreadable" Path.exists() itself raises (PermissionError)
Symbols == {"BTCUSDT_1h"}
CacheKeys == Symbols \X BOOLEAN
FileStates == {"missing", "corrupt", "ok", "malformed", "unreadable"}

\* load_model (lines 15-71): returns the artifact (None when there is none),
\* the cache afterwards, the number of joblib.load calls, and whether the
\* function raised.
load_model(mc, store, symbol, use_ensemble) ==
    LET key == << symbol, use_ensemble >>
        ens == store[symbol].ensemble
        sgl == store[symbol].single
        ensArtifact == [file |-> "ensemble", symbol |-> symbol, form |-> ens]
        sglArtifact == [file |-> "single", symbol |-> symbol, form |-> sgl]
        tryEns == use_ensemble /\ ens \in {"corrupt", "ok", "malformed"}
        ensReads == IF tryEns THEN 1 ELSE 0
        \* the cache after the ensemble attempt: the entry is stored before
        \* the logger.info line runs
        mc1 == IF use_ensemble /\ ens \in {"ok", "malformed"}
               THEN [mc EXCEPT ![key] = Some(ensArtifact)] ELSE mc
    IN  IF ~IsNone(mc[key])
        THEN [model_data |-> mc[key], cache |-> mc, reads |-> 0,
              raised |-> NoRaise]
        ELSE IF use_ensemble /\ ens = "unreadable"
        THEN [model_data |-> None, cache |-> mc, reads |-> 0,
              raised |-> "PermissionError"]
        ELSE IF use_ensemble /\ ens = "ok"
        THEN [model_data |-> Some(ensArtifact), cache |-> mc1, reads |-> 1,
              raised |-> NoRaise]
        ELSE IF sgl = "unreadable"
        THEN [model_data |-> None, cache |-> mc1, reads |-> ensReads,
              raised |-> "PermissionError"]
        ELSE IF sgl = "missing"
        THEN [model_data |-> None, cache |-> mc1, reads |-> ensReads,
              raised |-> NoRaise]
        ELSE IF sgl = "corrupt"
        THEN [model_data |-> None, cache |-> mc1, reads |-> ensReads + 1,
              raised |-> NoRaise]
        ELSE IF sgl = "ok"
        THEN [model_data |-> Some(sglArtifact),
              cache |-> [mc1 EXCEPT ![key] = Some(sglArtifact)],
              reads |-> ensReads + 1, raised |-> NoRaise]
        ELSE \* "malformed": cached, then the log line raises, return None
             [model_data |-> None,
              cache |-> [mc1 EXCEPT ![key] = Some(sglArtifact)],
              reads |-> ensReads + 1, raised |-> NoRaise]

\* What running the model on the frame can do: create_features or the
\* feature selection raises, predict_proba raises, or a float comes back
\* (in hundredths; any float, NaN included).
InferenceOutcomes ==
    { [kind |-> "features_raise", v |-> 0],
      [kind |-> "predict_raise", v |-> 0],
      [kind |-> "nan", v |-> 0],
      [kind |-> "value", v |-> -50],
      [kind |-> "value", v |-> 30],
      [kind |-> "value", v |-> 170] }

\* Variant of the validation that passes the model's value through
ValidateProbability_Unclamped(inference) ==
    IF inference.kind = "nan" THEN <<100, 1>>
    ELSE <<inference.v, 1>>

\* predict_direction, validation of the model's probability (lines 162-167):
\* not (0 <= prob <= 1) is true of NaN, and max(0.0, min(1.0, NaN)) is 1.0
ValidateProbability(inference) ==
    IF inference.kind = "nan" THEN <<100, 1>>
    ELSE IF ~(0 <= inference.v /\ inference.v <= 100)
    THEN Clamp01(<<inference.v, 1>>)
    ELSE <<inference.v, 1>>

\* predict_direction (lines 73-183)
predict_direction(mc, store, f, symbol, use_ensemble, ml_available, inference, noise) ==
    LET lm == load_model(mc, store, symbol, use_ensemble)
        h == _enhanced_fallback_heuristic(f, noise)
        base == [raised |-> NoRaise, cache |-> lm.cache, reads |-> lm.reads,
                 loaded |-> ~IsNone(lm.model_data)]
    IN  IF lm.raised # NoRaise
        THEN [base EXCEPT !.loaded = FALSE]
             @@ [prob |-> <<50, 1>>, path |-> "last_resort"]
        ELSE IF IsNone(lm.model_data)
        THEN base @@ [prob |-> h.prob, path |-> h.path]
        ELSE IF ~ml_available
        THEN base @@ [prob |-> h.prob, path |-> h.path]
        ELSE IF inference.kind \in {"features_raise", "predict_raise"}
        THEN base @@ [prob |-> h.prob, path |-> h.path]
        ELSE base @@ [prob |-> ValidateProbability(inference),
                      path |-> "model"]

Stores ==
    [Symbols -> [ensemble : {"missing", "corrupt", "ok", "malformed"},
                 single : {"missing", "corrupt", "ok", "unreadable"}]]

\* The frames predict_direction is exercised on: no indicator at all, a
\* frame without a close column, a flat market, a bullish and a bearish
\* market on high volume, and frames with only some of the indicators.
PredictFrames ==
    { [ema |-> "absent", rsi |-> "absent", macd |-> "absent", vol |-> "absent"],
      [ema |-> "keyerror", rsi |-> "mid", macd |-> "pos", vol |-> "normal"],
      [ema |-> "below", rsi |-> "mid", macd |-> "nonpos", vol |-> "normal"],
      [ema |-> "above", rsi |-> "low", macd |-> "pos", vol |-> "high"],
      [ema |-> "below", rsi |-> "high", macd |-> "nonpos", vol |-> "high"],
      [ema |-> "absent", rsi |-> "absent", macd |-> "absent", vol |-> "high"],
      [ema |-> "above", rsi |-> "absent", macd |-> "absent", vol |-> "absent"],
      [ema |-> "absent", rsi |-> "high", macd |-> "pos", vol |-> "normal"] }

Init_Predict ==
    /\ model_cache = [k \in CacheKeys |-> None]
    /\ artifact_store \in Stores
    /\ df \in PredictFrames
    /\ predict_ret = [op |-> "none"]
    /\ HarnessIdle
    /\ FetchIdle
    /\ ProcIdle

PredictDirection(symbol, use_ensemble, ml_available, inference, noise) ==
    LET r == predict_direction(model_cache, artifact_store, df, symbol,
                               use_ensemble, ml_available, inference, noise)
    IN  /\ model_cache' = r.cache
        /\ predict_ret' = [op |-> "predict_direction",
                           ml_available |-> ml_available,
                           inference |-> inference.kind,
                           raised |-> r.raised, prob |-> r.prob,
                           path |-> r.path, loaded |-> r.loaded,
                           reads |-> r.reads]
        /\ UNCHANGED << artifact_store, df, harnessVars, fetchVars, procVars >>

Next_Predict ==
    \E symbol \in Symbols, use_ensemble \in BOOLEAN, ml_available \in BOOLEAN,
       inference \in InferenceOutcomes, noise \in NoiseValues :
        PredictDirection(symbol, use_ensemble, ml_available, inference, noise)

SpecPredict == Init_Predict /\ [][Next_Predict]_vars

----------------------------------------------------------------------------
(* services/signal_service.py : UnifiedSignalGenerator                     *)
(* indicators/signals.py      : generate_signal                            *)

\* config.py Settings defaults
rsi_oversold == 40
rsi_overbought == 60
confidence_threshold == 55

\* The last row of the frame after the indicators are computed:
\*   [rsi, close, ema20, ema50, macd, adx, atr, stoch_k, volume_ratio,
\*    volatility]; row_access says which columns can be read: "ok",
\*   "no_ema50" (reading ema50 raises) or "no_rsi" (reading rsi raises).

\* predict_with_market_analysis (model/predict.py lines 281-347) after
\* predict_direction returned probability: the row's values are
\* numpy.float64, the balance is settings.default_account_balance.
predict_with_market_analysis(row, probability, sentiment_score) ==
    generate_prediction(DefaultConfig, probability, row.close,
        [rsi |-> row.rsi, ema20 |-> row.ema20, atr |-> row.atr,
         volatility |-> row.volatility, adx |-> Some(row.adx),
         volume_ratio |-> row.volume_ratio, macd |-> Some(row.macd),
         stoch_k |-> Some(row.stoch_k)],
        100000, sentiment_score, "float64")

\* _generate_fallback_signal (lines 150-214): <<signal, confidence>>,
\* confidence in hundredths
_generate_fallback_signal(row, row_access) ==
    LET b1 == IF row.rsi < rsi_oversold THEN 3
              ELSE IF row.rsi > rsi_overbought THEN 0
              ELSE IF row.rsi < 40 THEN 1 ELSE 0
        s1 == IF row.rsi < rsi_oversold THEN 0
              ELSE IF row.rsi > rsi_overbought THEN 3
              ELSE IF row.rsi < 40 THEN 0
              ELSE IF row.rsi > 60 THEN 1 ELSE 0
        up2 == row.close > row.ema20 /\ row.ema20 > row.ema50
        down2 == row.close < row.ema20 /\ row.ema20 < row.ema50
        b2 == IF up2 THEN 2 ELSE IF down2 THEN 0
              ELSE IF row.close > row.ema20 THEN 1 ELSE 0
        s2 == IF up2 THEN 0 ELSE IF down2 THEN 2
              ELSE IF row.close > row.ema20 THEN 0 ELSE 1
        b3 == IF row.macd > 0 THEN 1 ELSE 0
        s3 == IF row.macd > 0 THEN 0 ELSE 1
        b == b1 + b2 + b3
        s == s1 + s2 + s3
        b4 == IF row.adx > 25 /\ b > s THEN 1 ELSE 0
        s4 == IF row.adx > 25 /\ ~(b > s) THEN 1 ELSE 0
        buy_score == b + b4
        sell_score == s + s4
    IN  IF row_access = "no_rsi" THEN << BUY, 50 >>
        ELSE IF row_access = "no_ema50"
        THEN IF row.rsi < 50 THEN << BUY, 50 >> ELSE << SELL, 50 >>
        ELSE IF buy_score > sell_score
        THEN << BUY, Min(90, 50 + (buy_score - sell_score) * 10) >>
        ELSE << SELL, Min(90, 50 + (sell_score - buy_score) * 10) >>

\* Variant of the combiner whose agreement branch adds the two confidences
\* and does not cap the result
_combine_signals_SumBonus(ml_signal, ml_confidence, fallback_signal, fallback_confidence, close_above_ema, sentiment_score) ==
    LET truthy(c) == ~IsNone(c) /\ Val(c) # 0
        except == << IF fallback_signal # NoSignal THEN fallback_signal
                     ELSE BUY,
                     IF truthy(fallback_confidence)
                     THEN << Val(fallback_confidence), 1 >> ELSE <<50, 1>> >>
    IN  IF ml_signal # NoSignal /\ truthy(ml_confidence)
           /\ Val(ml_confidence) > 60
        THEN IF ml_signal = fallback_signal
             THEN IF IsNone(fallback_confidence) THEN except
                  ELSE << ml_signal,
                          RAdd(Norm(Val(ml_confidence)
                                    + Val(fallback_confidence), 1),
                               <<10, 1>>) >>
             ELSE << ml_signal, Norm(Val(ml_confidence) * 8, 10) >>
        ELSE IF fallback_signal # NoSignal
        THEN LET sentiment_boost ==
                     IF truthy(sentiment_score)
                        /\ \/ (fallback_signal = BUY /\ Val(sentiment_score) > 1)
                           \/ (fallback_signal = SELL
                               /\ Val(sentiment_score) < -1)
                     THEN 10 ELSE 0
             IN  IF IsNone(fallback_confidence) THEN except
                 ELSE << fallback_signal,
                         RMin(<<90, 1>>,
                              << Val(fallback_confidence) + sentiment_boost,
                                 1 >>) >>
        ELSE IF close_above_ema THEN << BUY, <<40, 1>> >>
        ELSE << SELL, <<40, 1>> >>

\* Variant of the combiner that trusts the ML path above 0.5
_combine_signals_Threshold50(ml_signal, ml_confidence, fallback_signal, fallback_confidence, close_above_ema, sentiment_score) ==
    LET truthy(c) == ~IsNone(c) /\ Val(c) # 0
        except == << IF fallback_signal # NoSignal THEN fallback_signal
                     ELSE BUY,
                     IF truthy(fallback_confidence)
                     THEN << Val(fallback_confidence), 1 >> ELSE <<50, 1>> >>
    IN  IF ml_signal # NoSignal /\ truthy(ml_confidence)
           /\ Val(ml_confidence) > 50
        THEN IF ml_signal = fallback_signal
             THEN IF IsNone(fallback_confidence) THEN except
                  ELSE << ml_signal,
                          RMin(<<95, 1>>,
                               RAdd(Norm(Val(ml_confidence)
                                         + Val(fallback_confidence), 2),
                                    <<10, 1>>)) >>
             ELSE << ml_signal, Norm(Val(ml_confidence) * 8, 10) >>
        ELSE IF fallback_signal # NoSignal
        THEN LET sentiment_boost ==
                     IF truthy(sentiment_score)
                        /\ \/ (fallback_signal = BUY /\ Val(sentiment_score) > 1)
                           \/ (fallback_signal = SELL
                               /\ Val(sentiment_score) < -1)
                     THEN 10 ELSE 0
             IN  IF IsNone(fallback_confidence) THEN except
                 ELSE << fallback_signal,
                         RMin(<<90, 1>>,
                              << Val(fallback_confidence) + sentiment_boost,
                                 1 >>) >>
        ELSE IF close_above_ema THEN << BUY, <<40, 1>> >>
        ELSE << SELL, <<40, 1>> >>

\* Variant of the combiner that discounts a disagreement by 0.9
_combine_signals_MildDiscount(ml_signal, ml_confidence, fallback_signal, fallback_confidence, close_above_ema, sentiment_score) ==
    LET truthy(c) == ~IsNone(c) /\ Val(c) # 0
        except == << IF fallback_signal # NoSignal THEN fallback_signal
                     ELSE BUY,
                     IF truthy(fallback_confidence)
                     THEN << Val(fallback_confidence), 1 >> ELSE <<50, 1>> >>
    IN  IF ml_signal # NoSignal /\ truthy(ml_confidence)
           /\ Val(ml_confidence) > 60
        THEN IF ml_signal = fallback_signal
             THEN IF IsNone(fallback_confidence) THEN except
                  ELSE << ml_signal,
                          RMin(<<95, 1>>,
                               RAdd(Norm(Val(ml_confidence)
                                         + Val(fallback_confidence), 2),
                                    <<10, 1>>)) >>
             ELSE << ml_signal, Norm(Val(ml_confidence) * 9, 10) >>
        ELSE IF fallback_signal # NoSignal
        THEN LET sentiment_boost ==
                     IF truthy(sentiment_score)
                        /\ \/ (fallback_signal = BUY /\ Val(sentiment_score) > 1)
                           \/ (fallback_signal = SELL
                               /\ Val(sentiment_score) < -1)
                     THEN 10 ELSE 0
             IN  IF IsNone(fallback_confidence) THEN except
                 ELSE << fallback_signal,
                         RMin(<<90, 1>>,
                              << Val(fallback_confidence) + sentiment_boost,
                                 1 >>) >>
        ELSE IF close_above_ema THEN << BUY, <<40, 1>> >>
        ELSE << SELL, <<40, 1>> >>

\* _combine_signals (lines 390-429).  ml_signal and fallback_signal are
\* signal strings or NoSignal, the confidences optional hundredths,
\* sentiment_score optional tenths; close_above_ema is last["close"] >
\* last["ema20"].  Returns <<signal, confidence>>, the confidence a rational
\* in hundredths.
_combine_signals(ml_signal, ml_confidence, fallback_signal, fallback_confidence, close_above_ema, sentiment_score) ==
    LET truthy(c) == ~IsNone(c) /\ Val(c) # 0
        except == << IF fallback_signal # NoSignal THEN fallback_signal
                     ELSE BUY,
                     IF truthy(fallback_confidence)
                     THEN << Val(fallback_confidence), 1 >> ELSE <<50, 1>> >>
    IN  IF ml_signal # NoSignal /\ truthy(ml_confidence)
           /\ Val(ml_confidence) > 60
        THEN IF ml_signal = fallback_signal
             THEN IF IsNone(fallback_confidence) THEN except
                  ELSE << ml_signal,
                          RMin(<<95, 1>>,
                               RAdd(Norm(Val(ml_confidence)
                                         + Val(fallback_confidence), 2),
                                    <<10, 1>>)) >>
             ELSE << ml_signal, Norm(Val(ml_confidence) * 8, 10) >>
        ELSE IF fallback_signal # NoSignal
        THEN LET sentiment_boost ==
                     IF truthy(sentiment_score)
                        /\ \/ (fallback_signal = BUY /\ Val(sentiment_score) > 1)
                           \/ (fallback_signal = SELL
                               /\ Val(sentiment_score) < -1)
                     THEN 10 ELSE 0
             IN  IF IsNone(fallback_confidence) THEN except
                 ELSE << fallback_signal,
                         RMin(<<90, 1>>,
                              << Val(fallback_confidence) + sentiment_boost,
                                 1 >>) >>
        ELSE IF close_above_ema THEN << BUY, <<40, 1>> >>
        ELSE << SELL, <<40, 1>> >>

\* round(x, 3) of a rational in hundredths, in thousandths
Round3(x) == RoundHalfEven(x[1] * 10, x[2])

\* UnifiedSignalGenerator.generate_signal (lines 21-87) with
\* _format_response (lines 216-284): fetch is what get_binance_data did
\* ("ok", "empty", "raise"), ml is what predict_with_market_analysis did
\* ("ok", "raise"), probability what predict_direction returned.
\* generate_signal_response is lines 52-83 from the two paths' results on.
generate_signal_response(prediction, fallback, row, row_access, sentiment_score, ml) ==
    LET ml_ok == ml = "ok" /\ prediction.raised = NoRaise
        ml_signal == IF ml_ok THEN prediction.signal ELSE NoSignal
        ml_confidence == IF ml_ok THEN prediction.probability ELSE None
        final == _combine_signals(ml_signal, ml_confidence, fallback[1],
                                  Some(fallback[2]), row.close > row.ema20,
                                  Some(sentiment_score))
    IN  IF row_access # "ok"
        THEN [error |-> "Response formatting failed", signal |-> NoSignal,
              confidence |-> None, price |-> None]
        ELSE [error |-> "None", signal |-> final[1],
              confidence |-> Some(Round3(final[2])),
              price |-> Some(row.close)]

unified_generate_signal(fetch, row, row_access, sentiment_score, ml, probability) ==
    IF fetch = "raise"
    THEN [error |-> "Signal generation failed", signal |-> NoSignal,
          confidence |-> None, price |-> None]
    ELSE IF fetch = "empty"
    THEN [error |-> "Could not fetch data", signal |-> NoSignal,
          confidence |-> None, price |-> None]
    ELSE generate_signal_response(
             predict_with_market_analysis(row, probability,
                                          Some(sentiment_score)),
             _generate_fallback_signal(row, row_access),
             row, row_access, sentiment_score, ml)

\* indicators.signals.generate_signal (lines 256-424): fetch is what
\* get_binance_data did ("ok", "empty", "api_error", "unexpected"), advanced
\* what predict_with_market_analysis did, probability and basic_probability
\* what the two predict_direction calls returned; sentiment_score is None
\* when sentiment is disabled or failed.  indicators_signal_response is
\* lines 303-424, from the prediction on.
indicators_signal_response(prediction, row, use_advanced_prediction, advanced, basic_probability) ==
    LET prob == basic_probability
        signal ==
            IF prob > 60 /\ row.rsi < rsi_oversold THEN "BUY"
            ELSE IF prob < 40 /\ row.rsi > rsi_overbought THEN "SELL"
            ELSE IF prob > confidence_threshold /\ row.close > row.ema20
            THEN "BUY (Trend)"
            ELSE IF prob < 100 - confidence_threshold
                    /\ row.close < row.ema20
            THEN "SELL (Trend)"
            ELSE IF prob > 50
            THEN IF row.close > row.ema20 THEN "BUY" ELSE "BUY (Weak)"
            ELSE IF row.close < row.ema20 THEN "SELL" ELSE "SELL (Weak)"
    IN  IF use_advanced_prediction /\ advanced = "ok"
           /\ prediction.raised = NoRaise
        THEN [error |-> "None", signal |-> prediction.signal,
              \* round(float(confidence), 4), in hundredths
              confidence |-> prediction.probability,
              price |-> Some(row.close)]
        ELSE [error |-> "None", signal |-> signal,
              \* round(float(prob), 2)
              confidence |-> Some(prob),
              price |-> Some(row.close)]

indicators_generate_signal(fetch, row, use_advanced_prediction, advanced, probability, basic_probability, sentiment_score) ==
    IF fetch \in {"api_error", "unexpected", "empty"}
    THEN [error |-> IF fetch = "api_error" THEN "BinanceAPIError"
                    ELSE "Could not fetch data",
          signal |-> NoSignal, confidence |-> None, price |-> None]
    ELSE indicators_signal_response(
             predict_with_market_analysis(row, probability, sentiment_score),
             row, use_advanced_prediction, advanced, basic_probability)

Rows ==
    { [rsi |-> r, close |-> c[1], ema20 |-> c[2], ema50 |-> c[3],
       macd |-> m, adx |-> x, atr |-> 20000, stoch_k |-> 50,
       volume_ratio |-> v, volatility |-> 20] :
        r \in {25, 35, 45, 55, 65, 75},
        c \in { <<10300, 10000, 9800>>, <<9700, 10000, 10200>>,
                <<10300, 10000, 10200>>, <<10000, 10000, 10000>> },
        m \in {-1, 1}, x \in {15, 30, 45}, v \in {Some(10), Some(16)} }

UnifiedGenerateSignalCalls ==
    { [op |-> "generate_signal", fetch |-> "ok", row |-> w,
       row_access |-> "ok", sentiment_score |-> s, ml |-> m,
       probability |-> p] :
        w \in Rows, s \in {-5, 0, 5}, m \in {"ok", "raise"},
        p \in {20, 38, 50, 60, 61, 70, 90} }
    \cup
    { [op |-> "generate_signal", fetch |-> f, row |-> w,
       row_access |-> a, sentiment_score |-> 0, ml |-> "ok",
       probability |-> 70] :
        f \in {"ok", "empty", "raise"}, a \in {"ok", "no_ema50", "no_rsi"},
        w \in {x \in Rows : x.adx = 30 /\ x.volume_ratio = Some(10)} }

CombineSignalsCalls ==
    { [op |-> "_combine_signals", ml_signal |-> ms, ml_confidence |-> mc,
       fallback_signal |-> fs, fallback_confidence |-> fc,
       close_above_ema |-> e, sentiment_score |-> s] :
        ms \in Signal \cup {NoSignal},
        mc \in {None, Some(0), Some(50), Some(60), Some(61), Some(90)},
        fs \in {BUY, SELL, NoSignal},
        fc \in {None, Some(50), Some(70), Some(90)},
        e \in BOOLEAN, s \in {None, Some(-5), Some(0), Some(5)} }

IndicatorsGenerateSignalCalls ==
    { [op |-> "indicators.generate_signal", fetch |-> f, row |-> w,
       use_advanced_prediction |-> u, advanced |-> a, probability |-> p,
       basic_probability |-> bp, sentiment_score |-> None] :
        f \in {"ok", "empty", "api_error", "unexpected"},
        w \in {x \in Rows : x.volume_ratio = Some(10) /\ x.macd = 1},
        u \in BOOLEAN, a \in {"ok", "raise"}, p \in {30, 70},
        bp \in {30, 45, 50, 58, 70} }

Init_Service ==
    /\ call \in UnifiedGenerateSignalCalls \cup CombineSignalsCalls
                \cup IndicatorsGenerateSignalCalls
    /\ ret = Pending
    /\ PredictIdle
    /\ FetchIdle
    /\ ProcIdle

UnifiedGenerateSignal ==
    /\ call.op = "generate_signal"
    /\ ret = Pending
    /\ ret' = [op |-> "generate_signal",
               out |-> unified_generate_signal(call.fetch, call.row,
                           call.row_access, call.sentiment_score, call.ml,
                           call.probability)]
    /\ UNCHANGED << call, predictVars, fetchVars, procVars >>

CombineSignals ==
    /\ call.op = "_combine_signals"
    /\ ret = Pending
    /\ ret' = [op |-> "_combine_signals",
               out |-> _combine_signals(call.ml_signal, call.ml_confidence,
                           call.fallback_signal, call.fallback_confidence,
                           call.close_above_ema, call.sentiment_score)]
    /\ UNCHANGED << call, predictVars, fetchVars, procVars >>

IndicatorsGenerateSignal ==
    /\ call.op = "indicators.generate_signal"
    /\ ret = Pending
    /\ ret' = [op |-> "indicators.generate_signal",
               out |-> indicators_generate_signal(call.fetch, call.row,
                           call.use_advanced_prediction, call.advanced,
                           call.probability, call.basic_probability,
                           call.sentiment_score)]
    /\ UNCHANGED << call, predictVars, fetchVars, procVars >>

Next_Service ==
    \/ UnifiedGenerateSignal
    \/ CombineSignals
    \/ IndicatorsGenerateSignal

SpecService == Init_Service /\ [][Next_Service]_vars

----------------------------------------------------------------------------
(* indicators/signals.py : EnhancedDataFetcher.validate_data_quality       *)

\* A candle is [open, high, low, close, volume], each None (NaN, what
\* pd.to_numeric(errors='coerce') leaves of a malformed field) or a value.
\* The code only compares prices, so a price is its rank on a scale on which
\* MIN_PRICE (1e-8) is 1 and MAX_PRICE (1e9) is 4: 0 is any price below
\* MIN_PRICE (zero and negative prices included), 5 any price above
\* MAX_PRICE.
MIN_PRICE == 1
MAX_PRICE == 4
MaxCandles == 2

PriceFields == {"open", "high", "low", "close"}
CandleFields == {"open", "high", "low", "close", "volume"}

BaseCandle ==
    [open |-> Some(2), high |-> Some(3), low |-> Some(1), close |-> Some(2),
     volume |-> Some(1)]

\* A well-formed candle and every candle that differs from it in one field
CandleUniverse ==
    {BaseCandle}
    \cup { [BaseCandle EXCEPT ![f] = x] :
             f \in PriceFields,
             x \in {None, Some(0), Some(1), Some(4), Some(5)} }
    \cup { [BaseCandle EXCEPT !.volume = None] }

SeriesUniverse ==
    UNION { [1..n -> CandleUniverse] : n \in 1..MaxCandles }

\* df.fillna(method='ffill') on one column, up to row i
RECURSIVE FFillAt(_, _, _)
FFillAt(series, f, i) ==
    IF ~IsNone(series[i][f]) THEN series[i][f]
    ELSE IF i = 1 THEN None
    ELSE FFillAt(series, f, i - 1)

\* df.fillna(method='bfill') on one column, from row i
RECURSIVE BFillAt(_, _, _)
BFillAt(series, f, i) ==
    IF ~IsNone(series[i][f]) THEN series[i][f]
    ELSE IF i = Len(series) THEN None
    ELSE BFillAt(series, f, i + 1)

FFill(series) ==
    [i \in 1..Len(series) |-> [f \in CandleFields |-> FFillAt(series, f, i)]]
BFill(series) ==
    [i \in 1..Len(series) |-> [f \in CandleFields |-> BFillAt(series, f, i)]]

HasNaN(series) ==
    \E i \in 1..Len(series) : \E f \in CandleFields : IsNone(series[i][f])

\* (df[col] < MIN_PRICE) | (df[col] > MAX_PRICE), on rows without NaN
InvalidPrices(series, col) ==
    \E i \in 1..Len(series) :
        Val(series[i][col]) < MIN_PRICE \/ Val(series[i][col]) > MAX_PRICE

\* validate_data_quality (lines 158-230): only an unfillable NaN and an
\* out-of-range close raise; the other findings are logged.
validate_data_quality(series) ==
    LET filled == IF HasNaN(series) THEN BFill(FFill(series)) ELSE series
    IN  IF HasNaN(filled)
        THEN [raised |-> "DataQualityError", df |-> << >>]
        ELSE IF InvalidPrices(filled, "close")
        THEN [raised |-> "DataQualityError", df |-> << >>]
        ELSE [raised |-> NoRaise, df |-> filled]

ValidateDataQualityCalls ==
    { [op |-> "validate_data_quality", df |-> d] : d \in SeriesUniverse }

Init_Validate ==
    /\ call \in ValidateDataQualityCalls
    /\ ret = Pending
    /\ PredictIdle
    /\ FetchIdle
    /\ ProcIdle

ValidateDataQuality ==
    /\ call.op = "validate_data_quality"
    /\ ret = Pending
    /\ ret' = [op |-> "validate_data_quality",
               out |-> validate_data_quality(call.df)]
    /\ UNCHANGED << call, predictVars, fetchVars, procVars >>

Next_Validate == ValidateDataQuality

SpecValidate == Init_Validate /\ [][Next_Validate]_vars

----------------------------------------------------------------------------
(* indicators/signals.py : EnhancedDataFetcher.fetch_market_data,          *)
(*                         _fetch_from_api                                 *)
(* cache.py              : SimpleCache                                     *)
(* exceptions.py         : CircuitBreaker                                  *)
(*                                                                         *)
(* Time is in whole seconds.  Inside a call the clock advances by the      *)
(* time.sleep() waits of the retry loop; between calls by Tick.            *)

MAX_RETRIES == 3
RETRY_MIN_WAIT == 1
RETRY_MAX_WAIT == 10
MIN_DATA_POINTS == 50
failure_threshold == 5
timeout == 60
cache_ttl == 60
MaxTime == 125

FetchKeys == {"binance_data_BTCUSDT_1h_1000"}

RECURSIVE Pow2(_)
Pow2(n) == IF n = 0 THEN 1 ELSE 2 * Pow2(n - 1)

\* --- SimpleCache ---------------------------------------------------------
\* Variant of get that still serves an entry at its expiry time
cache_get_ServeAtExpiry(c, key, t) ==
    IF ~IsNone(c[key])
    THEN IF t <= Val(c[key]).expires_at
         THEN [value |-> Some(Val(c[key]).value), cache |-> c]
         ELSE [value |-> None, cache |-> [c EXCEPT ![key] = None]]
    ELSE [value |-> None, cache |-> c]

\* get (lines 11-20): the value when the entry has not expired; an expired
\* entry is deleted.
cache_get(c, key, t) ==
    IF ~IsNone(c[key])
    THEN IF t < Val(c[key]).expires_at
         THEN [value |-> Some(Val(c[key]).value), cache |-> c]
         ELSE [value |-> None, cache |-> [c EXCEPT ![key] = None]]
    ELSE [value |-> None, cache |-> c]

\* set (lines 22-30)
cache_set(c, key, value, ttl, t) ==
    [c EXCEPT ![key] = Some([value |-> value, expires_at |-> t + ttl])]

\* --- CircuitBreaker ------------------------------------------------------
\* Variant of record_failure that opens one failure late
record_failure_Late(b, t) ==
    LET fc == b.failure_count + 1
    IN  [failure_count |-> fc,
         last_failure_time |-> Some(t),
         state |-> IF fc > failure_threshold THEN "OPEN" ELSE b.state]

\* record_failure (lines 73-79)
record_failure(b, t) ==
    LET fc == b.failure_count + 1
    IN  [failure_count |-> fc,
         last_failure_time |-> Some(t),
         state |-> IF fc >= failure_threshold THEN "OPEN" ELSE b.state]

\* reset (lines 81-85)
reset(b) ==
    [failure_count |-> 0, last_failure_time |-> None, state |-> "CLOSED"]

\* the admission test of call (lines 59-63): TRUE when the call is rejected
cooldown_running(b, t) ==
    b.state = "OPEN" /\ ~(t - Val(b.last_failure_time) > timeout)

\* --- upstream responses --------------------------------------------------
\* requests.get either fails (timeout, other request error) or delivers n
\* candles, of which the model keeps the last ones.
GoodCandles == << BaseCandle, [BaseCandle EXCEPT !.close = Some(3)] >>
GapCandles == << BaseCandle, [BaseCandle EXCEPT !.open = None] >>
BadCloseCandles == << BaseCandle, [BaseCandle EXCEPT !.close = Some(5)] >>
BadOpenCandles == << BaseCandle, [BaseCandle EXCEPT !.open = Some(0)] >>

FailureResponses == { [kind |-> "timeout"], [kind |-> "request_error"] }
DataResponses ==
    { [kind |-> "data", n |-> 49, candles |-> GoodCandles],
      [kind |-> "data", n |-> 50, candles |-> GoodCandles],
      [kind |-> "data", n |-> 50, candles |-> GapCandles],
      [kind |-> "data", n |-> 50, candles |-> BadCloseCandles],
      [kind |-> "data", n |-> 50, candles |-> BadOpenCandles] }

\* What the upstream answers to the successive requests of one call: j
\* failures of one kind, then (if a request is left) a data response.
Scripts ==
    { [i \in 1..MAX_RETRIES |->
          IF i <= j THEN fk
          ELSE IF i = j + 1 THEN d ELSE [kind |-> "timeout"]] :
      j \in 0..MAX_RETRIES, fk \in FailureResponses, d \in DataResponses }

\* _fetch_from_api (lines 90-156), from attempt number `attempt` on
RECURSIVE FetchAttempt(_, _, _)
FetchAttempt(script, attempt, slept) ==
    IF attempt = MAX_RETRIES
    THEN [raised |-> "BinanceAPIError", df |-> << >>,
          requests |-> MAX_RETRIES, slept |-> slept]
    ELSE LET response == script[attempt + 1]
             wait_time == IF attempt < MAX_RETRIES - 1
                          THEN Min(RETRY_MIN_WAIT * Pow2(attempt),
                                   RETRY_MAX_WAIT)
                          ELSE 0
         IN  IF response.kind = "data"
             THEN IF response.n = 0 \/ response.n < MIN_DATA_POINTS
                  THEN [raised |-> "InsufficientDataError", df |-> << >>,
                        requests |-> attempt + 1, slept |-> slept]
                  ELSE [raised |-> NoRaise, df |-> response.candles,
                        requests |-> attempt + 1, slept |-> slept]
             ELSE FetchAttempt(script, attempt + 1, slept + wait_time)

\* Variant of the retry loop that also waits before its first request
_fetch_from_api_WaitFirst(script) == FetchAttempt(script, 0, RETRY_MIN_WAIT)

_fetch_from_api(script) == FetchAttempt(script, 0, 0)

\* CircuitBreaker.call (lines 57-71) around _fetch_from_api
circuit_breaker_call(b, t, script) ==
    IF cooldown_running(b, t)
    THEN [raised |-> "CircuitBreakerOpenError", df |-> << >>,
          requests |-> 0, slept |-> 0, invoked |-> FALSE, breaker |-> b]
    ELSE LET b1 == IF b.state = "OPEN"
                   THEN [b EXCEPT !.state = "HALF_OPEN"] ELSE b
             r == _fetch_from_api(script)
         IN  [raised |-> r.raised, df |-> r.df, requests |-> r.requests,
              slept |-> r.slept, invoked |-> TRUE,
              breaker |-> IF r.raised = NoRaise
                          THEN reset(b1)
                          ELSE record_failure(b1, t + r.slept)]

\* fetch_market_data (lines 46-88)
fetch_market_data(c, b, t, key, script) ==
    LET g == cache_get(c, key, t)
        cached_data == g.value
        r == circuit_breaker_call(b, t, script)
        v == IF r.raised = NoRaise
             THEN validate_data_quality(r.df)
             ELSE [raised |-> r.raised, df |-> << >>]
        t1 == t + r.slept
    IN  IF ~IsNone(cached_data)
        THEN [raised |-> NoRaise, value |-> cached_data, cache |-> g.cache,
              breaker |-> b, now |-> t, invoked |-> FALSE,
              upstream |-> "not_called", requests |-> 0]
        ELSE IF v.raised = NoRaise
        THEN [raised |-> NoRaise, value |-> Some(v.df),
              cache |-> cache_set(g.cache, key, v.df, cache_ttl, t1),
              breaker |-> r.breaker, now |-> t1, invoked |-> TRUE,
              upstream |-> NoRaise, requests |-> r.requests]
        ELSE IF ~IsNone(cached_data)
        THEN [raised |-> NoRaise, value |-> cached_data, cache |-> g.cache,
              breaker |-> r.breaker, now |-> t1, invoked |-> r.invoked,
              upstream |-> r.raised, requests |-> r.requests]
        ELSE [raised |-> v.raised, value |-> None, cache |-> g.cache,
              breaker |-> r.breaker, now |-> t1, invoked |-> r.invoked,
              upstream |-> r.raised, requests |-> r.requests]

\* --- _fetch_from_api on its own -------------------------------------------
\* What each of the MAX_RETRIES requests of one call can be answered with:
\* a timeout, another transport error, or 0, 49 or 50 candles.
RetryResponses ==
    FailureResponses
    \cup { [kind |-> "data", n |-> n, candles |-> GoodCandles] :
             n \in {0, 49, 50} }

FetchFromApiCalls ==
    { [op |-> "_fetch_from_api", script |-> sc] :
        sc \in [1..MAX_RETRIES -> RetryResponses] }

Init_Retry ==
    /\ call \in FetchFromApiCalls
    /\ ret = Pending
    /\ PredictIdle
    /\ FetchIdle
    /\ ProcIdle

FetchFromApi ==
    /\ call.op = "_fetch_from_api"
    /\ ret = Pending
    /\ ret' = [op |-> "_fetch_from_api", out |-> _fetch_from_api(call.script)]
    /\ UNCHANGED << call, predictVars, fetchVars, procVars >>

Next_Retry == FetchFromApi

SpecRetry == Init_Retry /\ [][Next_Retry]_vars

TickSteps == {30, 31}

Init_Fetch ==
    /\ cache = [k \in FetchKeys |-> None]
    /\ state = "CLOSED"
    /\ failure_count = 0
    /\ last_failure_time = None
    /\ now = 0
    /\ fetch_ret = [op |-> "none"]
    /\ HarnessIdle
    /\ PredictIdle
    /\ ProcIdle

FetchMarketData(key, script) ==
    LET b == [failure_count |-> failure_count,
              last_failure_time |-> last_failure_time, state |-> state]
        r == fetch_market_data(cache, b, now, key, script)
    IN  /\ r.now <= MaxTime
        /\ cache' = r.cache
        /\ state' = r.breaker.state
        /\ failure_count' = r.breaker.failure_count
        /\ last_failure_time' = r.breaker.last_failure_time
        /\ now' = r.now
        /\ fetch_ret' = [op |-> "fetch_market_data", key |-> key,
                         raised |-> r.raised, value |-> r.value,
                         invoked |-> r.invoked, upstream |-> r.upstream,
                         requests |-> r.requests]
        /\ UNCHANGED << harnessVars, predictVars, procVars >>

Tick(d) ==
    /\ now + d <= MaxTime
    /\ now' = now + d
    /\ UNCHANGED << cache, state, failure_count, last_failure_time,
                    fetch_ret, harnessVars, predictVars, procVars >>

Next_Fetch ==
    \/ \E key \in FetchKeys, script \in Scripts : FetchMarketData(key, script)
    \/ \E d \in TickSteps : Tick(d)

SpecFetch == Init_Fetch /\ [][Next_Fetch]_vars

----------------------------------------------------------------------------
(* exceptions.py : CircuitBreaker.call under concurrent callers            *)
(*                                                                         *)
(* binance_circuit_breaker is one module-level object (signals.py line 33) *)
(* used by the request handlers and by the background trading loop thread  *)
(* (trading_service.py line 34).  CircuitBreaker takes no lock, so the     *)
(* statements of call interleave.  A caller stands at                      *)
(*   "idle"          outside call                                          *)
(*   "check_timeout" read state == "OPEN" (line 59), about to test line 60 *)
(*   "func"          inside func (line 66)                                 *)
(* and remembers the breaker state it was admitted under.                  *)

Threads == {"handler", "trading_loop"}

BreakerIdle == [pos |-> "idle", admitted |-> "CLOSED"]

Init_Breaker ==
    /\ pc = [t \in Threads |-> BreakerIdle]
    /\ state = "CLOSED"
    /\ failure_count = 0
    /\ last_failure_time = None
    /\ now = 0
    /\ cache = << >>
    /\ fetch_ret = [op |-> "none"]
    /\ is_running = FALSE
    /\ stop_event = FALSE
    /\ heap = << >>
    /\ HarnessIdle
    /\ PredictIdle

\* line 59: if self.state == "OPEN"
BreakerEnter(t) ==
    /\ pc[t].pos = "idle"
    /\ pc' = [pc EXCEPT ![t] =
                 IF state = "OPEN"
                 THEN [pos |-> "check_timeout", admitted |-> "CLOSED"]
                 ELSE [pos |-> "func", admitted |-> state]]
    /\ UNCHANGED << state, failure_count, last_failure_time, now, cache,
                    fetch_ret, is_running, stop_event, heap, harnessVars,
                    predictVars >>

\* lines 60-63: the cooldown test; last_failure_time can have been set to
\* None by another caller's reset, and the subtraction then raises TypeError
BreakerCheckTimeout(t) ==
    /\ pc[t].pos = "check_timeout"
    /\ IF ~IsNone(last_failure_time)
          /\ now - Val(last_failure_time) > timeout
       THEN /\ state' = "HALF_OPEN"
            /\ pc' = [pc EXCEPT ![t] = [pos |-> "func",
                                        admitted |-> "HALF_OPEN"]]
       ELSE /\ state' = state
            /\ pc' = [pc EXCEPT ![t] = BreakerIdle]
    /\ UNCHANGED << failure_count, last_failure_time, now, cache,
                    fetch_ret, is_running, stop_event, heap, harnessVars,
                    predictVars >>

\* lines 65-71: func returns (reset) or raises (record_failure)
BreakerReturn(t, ok) ==
    LET b == [failure_count |-> failure_count,
              last_failure_time |-> last_failure_time, state |-> state]
        b1 == IF ok THEN reset(b) ELSE record_failure(b, now)
    IN  /\ pc[t].pos = "func"
        /\ state' = b1.state
        /\ failure_count' = b1.failure_count
        /\ last_failure_time' = b1.last_failure_time
        /\ pc' = [pc EXCEPT ![t] = BreakerIdle]
        /\ UNCHANGED << now, cache, fetch_ret, is_running, stop_event, heap,
                        harnessVars, predictVars >>

BreakerTick(d) ==
    /\ now + d <= MaxTime
    /\ now' = now + d
    /\ UNCHANGED << pc, state, failure_count, last_failure_time, cache,
                    fetch_ret, is_running, stop_event, heap, harnessVars,
                    predictVars >>

Next_Breaker ==
    \/ \E t \in Threads : BreakerEnter(t)
    \/ \E t \in Threads : BreakerCheckTimeout(t)
    \/ \E t \in Threads, ok \in BOOLEAN : BreakerReturn(t, ok)
    \/ \E d \in TickSteps : BreakerTick(d)

SpecBreaker == Init_Breaker /\ [][Next_Breaker]_vars

----------------------------------------------------------------------------
(* cache.py : SimpleCache under concurrent callers                         *)
(*                                                                         *)
(* cache is one module-level object (cache.py line 42) that the request    *)
(* handlers and the trading loop thread reach through fetch_market_data.   *)
(* SimpleCache takes no lock; a dictionary test, read, store or del is     *)
(* atomic, the statements of get and delete interleave.  A caller stands   *)
(* at "idle", "contains" (about to test key in self._cache), "read" (get,  *)
(* about to read self._cache[key]), "del" (about to del self._cache[key])  *)
(* or "set" (about to store the entry).                                    *)

\* what the cache operations leave alone
cacheFrame == << state, failure_count, last_failure_time, fetch_ret,
                is_running, stop_event, heap, harnessVars, predictVars >>

CacheOps == {"get", "set", "delete"}

CacheIdle == [pos |-> "idle", op |-> "none", raised |-> NoRaise]

Init_Cache ==
    /\ pc = [t \in Threads |-> CacheIdle]
    /\ cache = [k \in FetchKeys |-> None]
    /\ now = 0
    /\ state = "CLOSED"
    /\ failure_count = 0
    /\ last_failure_time = None
    /\ fetch_ret = [op |-> "none"]
    /\ is_running = FALSE
    /\ stop_event = FALSE
    /\ heap = << >>
    /\ HarnessIdle
    /\ PredictIdle

\* a caller enters get, set or delete
CacheBegin(t, op) ==
    /\ pc[t].pos = "idle"
    /\ pc' = [pc EXCEPT ![t] = [pos |-> IF op = "set" THEN "set"
                                        ELSE "contains",
                                op |-> op, raised |-> NoRaise]]
    /\ UNCHANGED << cache, now, cacheFrame >>

\* lines 13 and 38: if key in self._cache
CacheContains(t, key) ==
    /\ pc[t].pos = "contains"
    /\ pc' = [pc EXCEPT ![t].pos =
                 IF IsNone(cache[key]) THEN "idle"
                 ELSE IF pc[t].op = "get" THEN "read" ELSE "del"]
    /\ UNCHANGED << cache, now, cacheFrame >>

\* lines 14-16: entry = self._cache[key] raises KeyError when the key has
\* gone; an unexpired entry is returned
CacheRead(t, key) ==
    /\ pc[t].pos = "read"
    /\ pc' = [pc EXCEPT ![t] =
                 IF IsNone(cache[key])
                 THEN [pos |-> "idle", op |-> "get", raised |-> "KeyError"]
                 ELSE IF now < Val(cache[key]).expires_at
                 THEN [pos |-> "idle", op |-> "get", raised |-> NoRaise]
                 ELSE [pos |-> "del", op |-> "get", raised |-> NoRaise]]
    /\ UNCHANGED << cache, now, cacheFrame >>

\* lines 19 and 39: del self._cache[key] raises KeyError when the key has
\* gone
CacheDel(t, key) ==
    /\ pc[t].pos = "del"
    /\ pc' = [pc EXCEPT ![t].pos = "idle",
                        ![t].raised = IF IsNone(cache[key]) THEN "KeyError"
                                      ELSE NoRaise]
    /\ cache' = [cache EXCEPT ![key] = None]
    /\ UNCHANGED << now, cacheFrame >>

\* lines 27-30: the caller stores its own name as the value
CacheSet(t, key) ==
    /\ pc[t].pos = "set"
    /\ pc' = [pc EXCEPT ![t].pos = "idle"]
    /\ cache' = cache_set(cache, key, t, cache_ttl, now)
    /\ UNCHANGED << now, cacheFrame >>

CacheTick(d) ==
    /\ now + d <= MaxTime
    /\ now' = now + d
    /\ UNCHANGED << pc, cache, cacheFrame >>

Next_Cache ==
    \/ \E t \in Threads, op \in CacheOps : CacheBegin(t, op)
    \/ \E t \in Threads, key \in FetchKeys : CacheContains(t, key)
    \/ \E t \in Threads, key \in FetchKeys : CacheRead(t, key)
    \/ \E t \in Threads, key \in FetchKeys : CacheDel(t, key)
    \/ \E t \in Threads, key \in FetchKeys : CacheSet(t, key)
    \/ \E d \in TickSteps : CacheTick(d)

SpecCache == Init_Cache /\ [][Next_Cache]_vars

----------------------------------------------------------------------------
(* services/trading_service.py : TradingService.start / stop / _run_loop    *)
(*                                                                         *)
(* start and stop are called from the request handlers, one at a time.     *)
(* Each start that finds is_running false creates a new loop thread; a     *)
(* loop thread stands at "unborn", "test" (the while condition, line 48),  *)
(* "processing" (_process_active_sessions, line 50), "waiting"             *)
(* (_stop_event.wait, line 55) or "exited".                                *)

MaxThreads == 3

LoopThreads == 1..MaxThreads

\* what start, stop and the loop leave alone
tradingFrame == << cache, state, failure_count, last_failure_time, now,
                  fetch_ret, heap, harnessVars, predictVars >>

Init_Trading ==
    /\ pc = [t \in LoopThreads |-> "unborn"]
    /\ is_running = FALSE
    /\ stop_event = FALSE
    /\ heap = << >>
    /\ HarnessIdle
    /\ PredictIdle
    /\ FetchIdle

\* start (lines 25-37)
Start ==
    /\ ~is_running
    /\ \E t \in LoopThreads :
          /\ pc[t] = "unborn"
          /\ \A u \in LoopThreads : u < t => pc[u] # "unborn"
          /\ pc' = [pc EXCEPT ![t] = "test"]
    /\ stop_event' = FALSE
    /\ is_running' = TRUE
    /\ UNCHANGED tradingFrame

\* stop (lines 39-44)
Stop ==
    /\ stop_event' = TRUE
    /\ is_running' = FALSE
    /\ UNCHANGED << pc, tradingFrame >>

\* line 48: while not _stop_event.is_set()
LoopTest(t) ==
    /\ pc[t] = "test"
    /\ pc' = [pc EXCEPT ![t] = IF stop_event THEN "exited"
                               ELSE "processing"]
    /\ UNCHANGED << is_running, stop_event, tradingFrame >>

\* lines 49-52: one pass over the active sessions ends
LoopProcess(t) ==
    /\ pc[t] = "processing"
    /\ pc' = [pc EXCEPT ![t] = "waiting"]
    /\ UNCHANGED << is_running, stop_event, tradingFrame >>

\* line 55: _stop_event.wait(check_interval) returns, on the event or on
\* the timeout
LoopWake(t) ==
    /\ pc[t] = "waiting"
    /\ pc' = [pc EXCEPT ![t] = "test"]
    /\ UNCHANGED << is_running, stop_event, tradingFrame >>

Next_Trading ==
    \/ Start
    \/ Stop
    \/ \E t \in LoopThreads : LoopTest(t)
    \/ \E t \in LoopThreads : LoopProcess(t)
    \/ \E t \in LoopThreads : LoopWake(t)

\* every loop thread keeps being scheduled
SpecTrading ==
    /\ Init_Trading
    /\ [][Next_Trading]_vars
    /\ \A t \in LoopThreads :
          WF_vars(LoopTest(t) \/ LoopProcess(t) \/ LoopWake(t))

----------------------------------------------------------------------------
(* services/trading_service.py : _process_session, _execute_buy,            *)
(* _execute_sell                                                           *)
(*                                                                         *)
(* Balances, prices and quantities are exact rationals <<n, d>>; the       *)
(* strategy fractions are in thousandths, confidences in thousandths.  A   *)
(* pass carries st: the session's balance and counters, the rows of the    *)
(* positions table, the trades added and the symbols whose processing was  *)
(* logged as an error (line 151).                                          *)

\* keys of the dict that generate_signal returns (signal_service.py lines
\* 39, 87, 242-284)
ResponseKeys(signal_data) ==
    IF signal_data.error # "None" THEN {"error"}
    ELSE {"symbol", "timeframe", "signal", "signal_type", "confidence",
          "signal_strength", "reliability_score", "price", "timestamp",
          "indicators", "market_conditions", "risk_metrics", "chart_data",
          "sentiment", "metadata"}

\* signal_data.get(key, default), for the keys _process_session can find
response_get(signal_data, key, default) ==
    IF key \notin ResponseKeys(signal_data) THEN default
    ELSE CASE key = "price" -> << Val(signal_data.price), 1 >>
           [] key = "confidence" -> Val(signal_data.confidence)
           [] key = "signal" -> signal_data.signal
           [] OTHER -> key

\* position.trailing_stop_price as a truth value (None and 0.0 are false)
Truthy(x) == ~IsNone(x) /\ Val(x)[1] # 0

RemovePosition(rows, symbol) == SelectSeq(rows, LAMBDA p : p.symbol # symbol)

\* _execute_buy (lines 153-195): risk_amount / price raises when price is 0
_execute_buy(st, session, symbol, price, confidence) ==
    IF price[1] = 0
    THEN [st EXCEPT !.raised = "ZeroDivisionError"]
    ELSE LET risk_amount == RMul(st.current_balance,
                                 Norm(session.strategy_risk_per_trade, 1000))
             quantity == RDiv(risk_amount, price)
             cost == RMul(quantity, price)
         IN  IF RLess(st.current_balance, cost)
             THEN st
             ELSE [st EXCEPT
                     !.current_balance = RSub(@, cost),
                     !.db_positions = Append(@,
                         [symbol |-> symbol,
                          quantity |-> quantity,
                          average_price |-> price,
                          current_price |-> price,
                          stop_loss |-> RMul(price,
                              Norm(1000 - session.strategy_stop_loss, 1000)),
                          take_profit |-> RMul(price,
                              Norm(1000 + session.strategy_take_profit, 1000)),
                          trailing_stop_price |-> None,
                          pnl |-> << 0, 1 >>]),
                     !.trades = Append(@,
                         [symbol |-> symbol, trade_type |-> "BUY",
                          price |-> price, signal_reason |-> "BUY"])]

\* _execute_sell (lines 197-229)
_execute_sell(st, position, price, reason) ==
    LET revenue == RMul(position.quantity, price)
        cost == RMul(position.average_price, position.quantity)
        pnl == RSub(revenue, cost)
    IN  [st EXCEPT
           !.current_balance = RAdd(@, revenue),
           !.total_trades = @ + 1,
           !.winning_trades = IF pnl[1] > 0 THEN @ + 1 ELSE @,
           !.losing_trades = IF pnl[1] > 0 THEN @ ELSE @ + 1,
           !.trades = Append(@,
               [symbol |-> position.symbol, trade_type |-> "SELL",
                price |-> price, signal_reason |-> reason]),
           !.db_positions = RemovePosition(@, position.symbol)]

\* lines 114-140: the symbol has a position in the list queried at line 94
process_position(st, session, position, current_price, signal, confidence) ==
    LET pnl == RMul(RSub(current_price, position.average_price),
                    position.quantity)
        trailing_stop_price ==
            RMul(current_price, Norm(1000 - session.strategy_stop_loss, 1000))
        trailed ==
            IF /\ session.strategy_trailing_stop # 0
               /\ pnl[1] > 0
               /\ \/ ~Truthy(position.trailing_stop_price)
                  \/ RLess(Val(position.trailing_stop_price),
                           trailing_stop_price)
            THEN Some(trailing_stop_price)
            ELSE position.trailing_stop_price
        updated == [position EXCEPT !.current_price = current_price,
                                    !.pnl = pnl,
                                    !.trailing_stop_price = trailed]
        effective_stop == IF Truthy(trailed) THEN Val(trailed)
                          ELSE position.stop_loss
        st1 == [st EXCEPT !.db_positions =
                   [i \in DOMAIN @ |->
                       IF @[i].symbol = position.symbol THEN updated
                       ELSE @[i]]]
    IN  IF RLeq(current_price, effective_stop)
        THEN _execute_sell(st1, updated, current_price, "STOP_LOSS")
        ELSE IF RLeq(position.take_profit, current_price)
        THEN _execute_sell(st1, updated, current_price, "TAKE_PROFIT")
        ELSE IF signal = "SELL" /\ confidence >= 600
        THEN _execute_sell(st1, updated, current_price, "SELL")
        ELSE st1

\* lines 100-151 for one symbol: positions is the list queried before the
\* loop; an exception is logged and the loop goes on
process_symbol(st, session, positions, symbol, signal_data) ==
    IF "error" \in ResponseKeys(signal_data)
    THEN st
    ELSE LET current_price == response_get(signal_data, "current_price",
                                           << 0, 1 >>)
             signal == response_get(signal_data, "signal", "NEUTRAL")
             confidence == response_get(signal_data, "confidence", 0)
             held == SelectSeq(positions, LAMBDA p : p.symbol = symbol)
             after ==
                 IF Len(held) > 0
                 THEN process_position(st, session, held[1], current_price,
                                       signal, confidence)
                 ELSE IF /\ signal = "BUY"
                         /\ confidence >= 600
                         /\ Len(positions) < session.strategy_max_positions
                 THEN _execute_buy(st, session, symbol, current_price,
                                   confidence)
                 ELSE st
         IN  IF after.raised # NoRaise
             THEN [st EXCEPT !.logged = Append(@, symbol)]
             ELSE after

RECURSIVE process_symbols(_, _, _, _, _)
process_symbols(st, session, positions, signals, i) ==
    IF i > Len(session.symbols)
    THEN st
    ELSE process_symbols(
             process_symbol(st, session, positions, session.symbols[i],
                            signals[i]),
             session, positions, signals, i + 1)

\* _process_session (lines 88-151): signals[i] is what
\* generate_signal_service returned for the i-th symbol
_process_session(session, positions, signals) ==
    process_symbols([current_balance |-> session.current_balance,
                     total_trades |-> 0,
                     winning_trades |-> 0,
                     losing_trades |-> 0,
                     db_positions |-> positions,
                     trades |-> << >>,
                     logged |-> << >>,
                     raised |-> NoRaise],
                    session, positions, signals, 1)

SessionSymbols == << "BTCUSDT", "ETHUSDT" >>

\* sessions as create_session makes them (database.py lines 59-72)
Sessions ==
    [symbols : {SessionSymbols},
     current_balance : {<< 10000, 1 >>},
     strategy_risk_per_trade : {20, 50},
     strategy_stop_loss : {30},
     strategy_take_profit : {60},
     strategy_max_positions : {1, 5},
     strategy_trailing_stop : {0, 1}]

\* what generate_signal_service can return for a symbol
SignalResponses ==
    {[error |-> "Could not fetch data", signal |-> NoSignal,
      confidence |-> None, price |-> None]}
    \cup [error : {"None"},
          signal : {"BUY", "SELL", "HOLD"},
          confidence : {Some(590), Some(600)},
          price : {Some(100), Some(110)}]

\* the positions table holds only what _execute_buy added (line 182)
SessionPositionLists == {<< >>}

ProcessSessionCalls ==
    [op : {"_process_session"},
     session : Sessions,
     positions : SessionPositionLists,
     signals : [1..Len(SessionSymbols) -> SignalResponses]]

Init_Session ==
    /\ call \in ProcessSessionCalls
    /\ ret = Pending
    /\ PredictIdle
    /\ FetchIdle
    /\ ProcIdle

ProcessSession ==
    /\ call.op = "_process_session"
    /\ ret = Pending
    /\ ret' = [op |-> "_process_session",
               out |-> _process_session(call.session, call.positions,
                                        call.signals)]
    /\ UNCHANGED << call, predictVars, fetchVars, procVars >>

Next_Session == ProcessSession

SpecSession == Init_Session /\ [][Next_Session]_vars

----------------------------------------------------------------------------
(* The cached DataFrame and the two signal generators                      *)
(*                                                                         *)
(* indicators/signals.py : fetch_market_data (63-88), generate_signal      *)
(* (256-291); services/signal_service.py : generate_signal (21-42),        *)
(* _calculate_indicators (89-108).  A DataFrame is an object: heap[r] is   *)
(* the frame behind reference r, with its column names and the time its    *)
(* candles were fetched; the cache holds references.                       *)

MaxFrames == 3

FrameKeys == {"binance_data_BTCUSDT_1h_1000", "binance_data_ETHUSDT_1h_1000"}

\* the columns _fetch_from_api keeps (line 119)
OhlcvColumns == {"timestamp", "open", "high", "low", "close", "volume"}

\* the columns both generators assign to df
IndicatorColumns ==
    {"rsi", "ema20", "ema50", "macd", "atr", "stoch_k", "stoch_d", "adx"}

\* df[name] = ... for every indicator, on the object behind ref
assign_indicators(h, ref) ==
    [h EXCEPT ![ref].columns = @ \cup IndicatorColumns]

\* fetch_market_data (lines 63-88) on frame objects: api is what the
\* breaker call and the validation did ("ok", "raise").  The frame returned is the cached object
\* itself on a hit, and the object just stored on a miss.
fetch_market_data_object(c, h, key, t, api) ==
    LET got == cache_get(c, key, t)
    IN  IF ~IsNone(got.value)
        THEN [raised |-> NoRaise, hit |-> TRUE, ref |-> Val(got.value),
              cache |-> got.cache, heap |-> h]
        ELSE IF api = "raise"
        THEN [raised |-> "BinanceAPIError", hit |-> FALSE, ref |-> 0,
              cache |-> got.cache, heap |-> h]
        ELSE [raised |-> NoRaise, hit |-> FALSE, ref |-> Len(h) + 1,
              cache |-> cache_set(got.cache, key, Len(h) + 1, cache_ttl, t),
              heap |-> Append(h, [columns |-> OhlcvColumns,
                                  fetched_at |-> t])]

\* what a generator reports: the columns of the frame as fetch_market_data
\* returned it, and the columns it worked on
FrameReport(generator, key, fetched, worked) ==
    IF fetched.raised # NoRaise
    THEN [op |-> generator, key |-> key, error |-> fetched.raised,
          hit |-> FALSE, returned_columns |-> {}, columns |-> {}]
    ELSE [op |-> generator, key |-> key, error |-> "None",
          hit |-> fetched.hit,
          returned_columns |-> fetched.heap[fetched.ref].columns,
          columns |-> worked]

frameFrame == << state, failure_count, last_failure_time, pc, is_running,
                 stop_event, harnessVars, predictVars >>

Init_Frame ==
    /\ cache = [k \in FrameKeys |-> None]
    /\ heap = << >>
    /\ now = 0
    /\ state = "CLOSED"
    /\ failure_count = 0
    /\ last_failure_time = None
    /\ fetch_ret = [op |-> "none"]
    /\ pc = << >>
    /\ is_running = FALSE
    /\ stop_event = FALSE
    /\ HarnessIdle
    /\ PredictIdle

\* indicators.signals.generate_signal, lines 266-291: the indicators are
\* assigned to the frame that get_binance_data returned
FrameIndicatorsGenerateSignal(key, api) ==
    /\ LET fetched == fetch_market_data_object(cache, heap, key, now, api)
       IN  /\ Len(fetched.heap) <= MaxFrames
           /\ cache' = fetched.cache
           /\ heap' = IF fetched.raised # NoRaise THEN fetched.heap
                      ELSE assign_indicators(fetched.heap, fetched.ref)
           /\ fetch_ret' = FrameReport("generate_signal", key, fetched,
                                       OhlcvColumns \cup IndicatorColumns)
    /\ UNCHANGED << now, frameFrame >>

\* UnifiedSignalGenerator.generate_signal, lines 32-42, with
\* _calculate_indicators: the indicators are assigned to the frame that
\* get_binance_data returned, then df.ffill().bfill() makes the new frame
\* the rest of the call works on
FrameUnifiedGenerateSignal(key, api) ==
    /\ LET fetched == fetch_market_data_object(cache, heap, key, now, api)
       IN  /\ Len(fetched.heap) <= MaxFrames
           /\ cache' = fetched.cache
           /\ heap' = IF fetched.raised # NoRaise THEN fetched.heap
                      ELSE assign_indicators(fetched.heap, fetched.ref)
           /\ fetch_ret' = FrameReport("unified_generate_signal", key,
                                       fetched,
                                       OhlcvColumns \cup IndicatorColumns)
    /\ UNCHANGED << now, frameFrame >>

Next_Frame ==
    \/ \E key \in FrameKeys, api \in {"ok", "raise"} :
          FrameIndicatorsGenerateSignal(key, api)
    \/ \E key \in FrameKeys, api \in {"ok", "raise"} :
          FrameUnifiedGenerateSignal(key, api)
    \/ \E d \in TickSteps : Tick(d)

SpecFrame == Init_Frame /\ [][Next_Frame]_vars

----------------------------------------------------------------------------
(* Properties                                                               *)

C5_StopLossLossWithinRisk ==
    (/\ ret.op = "calculate_position_size"
     /\ call.account_balance > 0
     /\ call.entry_price > 0
     /\ call.stop_loss_price # call.entry_price
     /\ call.leverage >= 100) =>
        LET max_risk == Norm(call.account_balance * call.cfg.risk_per_trade,
                             10000)
            risk_per_unit == Norm(Abs(call.entry_price - call.stop_loss_price),
                                  100)
        IN  /\ ret.out.raised = NoRaise
            /\ PairLeq(Val(ret.out.quantity),
                       Floor8(RDiv(max_risk, risk_per_unit)))
            /\ Val(ret.out.risk_amount) * max_risk[2] <= 100 * max_risk[1]

\* C6 (as stated): with a zero stop distance the risk arithmetic does not
\* raise and the plan carries null risk fields: calculate_position_size with
\* entry_price == stop_loss_price, and generate_prediction with ATR = 0 and a
\* non-HOLD signal.
C6_ZeroStopDistanceGuarded ==
    /\ (ret.op = "calculate_position_size"
        /\ call.entry_price = call.stop_loss_price) =>
            /\ ret.out.raised = NoRaise
            /\ IsNone(ret.out.position_size)
            /\ IsNone(ret.out.quantity)
    /\ (ret.op = "generate_prediction"
        /\ call.indicators.atr = 0
        /\ predict_signal([probability |-> call.probability,
               rsi |-> call.indicators.rsi, price |-> call.price,
               ema20 |-> call.indicators.ema20,
               volatility |-> call.indicators.volatility,
               sentiment |-> call.sentiment, adx |-> call.indicators.adx,
               volume_ratio |-> call.indicators.volume_ratio,
               macd |-> call.indicators.macd,
               stoch_k |-> call.indicators.stoch_k]) # HOLD) =>
            /\ ret.out.raised = NoRaise
            /\ IsNone(ret.out.position_size)
            /\ IsNone(ret.out.quantity)

C7_RejectsEveryQualityDefect ==
    (ret.op = "validate_data_quality") =>
        LET filled == BFill(FFill(call.df))
            defect ==
                \/ HasNaN(filled)
                \/ \E i \in 1..Len(filled) : \E f \in PriceFields :
                       /\ ~IsNone(filled[i][f])
                       /\ \/ Val(filled[i][f]) < MIN_PRICE
                          \/ Val(filled[i][f]) > MAX_PRICE
                \/ \E i \in 1..Len(filled) :
                       /\ \A f \in PriceFields : ~IsNone(filled[i][f])
                       /\ \/ Val(filled[i].high) < Val(filled[i].low)
                          \/ Val(filled[i].high) < Val(filled[i].open)
                          \/ Val(filled[i].high) < Val(filled[i].close)
                          \/ Val(filled[i].low) > Val(filled[i].open)
                          \/ Val(filled[i].low) > Val(filled[i].close)
        IN  (ret.out.raised = "DataQualityError") <=> defect

C3_LegacySignalVocabulary ==
    (ret.op = "indicators.generate_signal" /\ ret.out.error = "None") =>
        /\ ret.out.signal \in {"BUY", "SELL", "NEUTRE", "BUY (Trend)",
                               "SELL (Trend)"}
        /\ 0 <= Val(ret.out.confidence)
        /\ Val(ret.out.confidence) <= 100

C8_StaleEntryServedOnFailure ==
    [][ (/\ ~(now' > now
                /\ UNCHANGED << cache, state, failure_count,
                                last_failure_time, fetch_ret >>)
         /\ ~IsNone(cache[fetch_ret'.key])
         /\ ~(now < Val(cache[fetch_ret'.key]).expires_at)
         /\ fetch_ret'.upstream
                \in {"BinanceAPIError", "CircuitBreakerOpenError"})
        => /\ fetch_ret'.raised = NoRaise
           /\ fetch_ret'.value = Some(Val(cache[fetch_ret'.key]).value)
      ]_vars

\* C9: sequential circuit breaker.  CLOSED: a failed call adds one to
\* failure_count and the breaker opens exactly when the count reaches
\* failure_threshold; a successful call resets the count to zero and leaves
\* the breaker CLOSED.  OPEN: a call within `timeout` seconds of the last
\* failure is rejected with CircuitBreakerOpenError, the upstream is not
\* invoked and the breaker is untouched; a call after more than `timeout`
\* seconds is a trial that closes the breaker (count zero) on success and
\* re-opens it with a fresh last_failure_time on failure.
C9_BreakerSequential ==
    /\ [](state = "CLOSED" => failure_count < failure_threshold)
    /\ [](state \in {"CLOSED", "OPEN"})
    /\ [][ (/\ ~(now' > now
                   /\ UNCHANGED << cache, state, failure_count,
                                   last_failure_time, fetch_ret >>)
            /\ \/ IsNone(cache[fetch_ret'.key])
               \/ ~(now < Val(cache[fetch_ret'.key]).expires_at)) =>
            /\ (state = "CLOSED") =>
                 /\ fetch_ret'.invoked
                 /\ (fetch_ret'.upstream # NoRaise) =>
                      /\ failure_count' = failure_count + 1
                      /\ last_failure_time' = Some(now')
                      /\ (state' = "OPEN")
                            <=> (failure_count' >= failure_threshold)
                      /\ state' \in {"CLOSED", "OPEN"}
                 /\ (fetch_ret'.upstream = NoRaise) =>
                      /\ failure_count' = 0
                      /\ state' = "CLOSED"
            /\ (state = "OPEN"
                /\ now - Val(last_failure_time) <= timeout) =>
                 /\ fetch_ret'.raised = "CircuitBreakerOpenError"
                 /\ ~fetch_ret'.invoked
                 /\ fetch_ret'.requests = 0
                 /\ UNCHANGED << state, failure_count, last_failure_time >>
            /\ (state = "OPEN"
                /\ now - Val(last_failure_time) > timeout) =>
                 /\ fetch_ret'.invoked
                 /\ (fetch_ret'.upstream = NoRaise) =>
                      /\ state' = "CLOSED"
                      /\ failure_count' = 0
                 /\ (fetch_ret'.upstream # NoRaise) =>
                      /\ state' = "OPEN"
                      /\ failure_count' = failure_count + 1
                      /\ last_failure_time' = Some(now')
      ]_vars

\* C9 witness: an open breaker rejected a call made exactly `timeout`
\* seconds after the last failure
C9_Witness ==
    /\ fetch_ret.op = "fetch_market_data"
    /\ fetch_ret.raised = "CircuitBreakerOpenError"
    /\ state = "OPEN"
    /\ failure_count >= failure_threshold
    /\ now - Val(last_failure_time) = timeout

\* C11: in a ranging regime (ADX < 20) predict_signal gives BUY only with
\* RSI < 25 and buy score >= 4, SELL only with RSI > 75 and sell score >= 4,
\* never a STRONG signal; with ADX = 15 and RSI = 50 it gives HOLD whatever
\* the other inputs.
C11_RangingOnlyExtremeRsi ==
    (/\ ret.op = "predict_signal"
     /\ ~IsNone(call.a.adx)
     /\ Val(call.a.adx) < 20) =>
        LET sc == ConfluenceScores(call.a)
        IN  /\ ret.signal \in {BUY, SELL, HOLD}
            /\ (ret.signal = BUY => call.a.rsi < 25 /\ sc.buy_score >= 4)
            /\ (ret.signal = SELL => call.a.rsi > 75 /\ sc.sell_score >= 4)
            /\ (Val(call.a.adx) = 15 /\ call.a.rsi = 50
                    => ret.signal = HOLD)

\* C11 witness: a ranging market with RSI 20 and a full buy score gives BUY
C11_Witness ==
    /\ ret.op = "predict_signal"
    /\ call.a.adx = Some(15)
    /\ call.a.rsi = 20
    /\ ret.signal = BUY

\* C12 (as stated): without ADX, volume ratio, MACD and stochastic,
\* predict_signal gives STRONG_BUY for probability 0.75, RSI 35, price 100,
\* EMA20 95, STRONG_SELL for probability 0.25, RSI 65, price 100, EMA20 105,
\* and HOLD for probability 0.5, RSI 50, price = EMA20.
C12_TestScenarios ==
    (/\ ret.op = "predict_signal"
     /\ IsNone(call.a.adx) /\ IsNone(call.a.volume_ratio)
     /\ IsNone(call.a.macd) /\ IsNone(call.a.stoch_k)
     /\ IsNone(call.a.sentiment)) =>
        /\ (/\ call.a.probability = 75 /\ call.a.rsi = 35
            /\ call.a.price = 10000 /\ call.a.ema20 = 9500)
           => ret.signal = STRONG_BUY
        /\ (/\ call.a.probability = 25 /\ call.a.rsi = 65
            /\ call.a.price = 10000 /\ call.a.ema20 = 10500)
           => ret.signal = STRONG_SELL
        /\ (/\ call.a.probability = 50 /\ call.a.rsi = 50
            /\ call.a.price = call.a.ema20)
           => ret.signal = HOLD

\* C20: for a probability in [0, 1] and a sentiment s in [-1, 1],
\* predict_signal(p, sentiment = s) equals predict_signal(clamp(p + 0.1 s,
\* 0, 1), no sentiment), the shift is at most 0.1, and no sentiment gives
\* what sentiment 0 gives.
C20_SentimentOnlyShiftsProbability ==
    (ret.op = "predict_signal") =>
        LET s == call.a.sentiment
            p == call.a.probability
            shifted == Clip(p + Val(s), 0, 100)
        IN  /\ ~IsNone(s) =>
                /\ ret.signal = predict_signal(
                       [call.a EXCEPT !.probability = shifted,
                                      !.sentiment = None])
                /\ Abs(shifted - p) <= 10
            /\ IsNone(s) =>
                ret.signal = predict_signal(
                                 [call.a EXCEPT !.sentiment = Some(0)])

\* C20 witness: a sentiment that changes the signal
C20_Witness ==
    /\ ret.op = "predict_signal"
    /\ call.a.sentiment = Some(10)
    /\ ret.signal # predict_signal([call.a EXCEPT !.sentiment = None])

\* C13 (as stated): with entry 100, atr 2 and rr_ratio 2, STRONG_BUY gives
\* stop_loss 96 and BUY gives stop_loss 94, the take_profit lying rr_ratio
\* times the stop distance above the entry.
C13_StopLossScenario ==
    (/\ ret.op = "calculate_stop_loss_take_profit"
     /\ call.entry_price = 10000
     /\ call.atr = 20000
     /\ call.risk_reward_ratio = 20
     /\ call.signal \in {STRONG_BUY, BUY}) =>
        /\ ret.out.stop_loss
               = Some(IF call.signal = STRONG_BUY THEN 9600 ELSE 9400)
        /\ Val(ret.out.take_profit) - 10000
               = 2 * (10000 - Val(ret.out.stop_loss))

\* C13 (amended): with entry 100, atr 2 and rr_ratio 2, STRONG_BUY gives
\* stop_loss 97 (distance 1.5 x 2) and take_profit 106, BUY gives stop_loss
\* 96 (distance 2 x 2) and take_profit 108.
C13_StopLossScenarioByMultiplier ==
    (/\ ret.op = "calculate_stop_loss_take_profit"
     /\ call.entry_price = 10000
     /\ call.atr = 20000
     /\ call.risk_reward_ratio = 20
     /\ call.signal \in {STRONG_BUY, BUY}) =>
        /\ ret.out.stop_loss
               = Some(IF call.signal = STRONG_BUY THEN 9700 ELSE 9600)
        /\ ret.out.take_profit
               = Some(IF call.signal = STRONG_BUY THEN 10600 ELSE 10800)

\* C13 witness: the STRONG_BUY scenario call has returned
C13_Witness ==
    /\ ret.op = "calculate_stop_loss_take_profit"
    /\ call.entry_price = 10000
    /\ call.atr = 20000
    /\ call.risk_reward_ratio = 20
    /\ call.signal = STRONG_BUY
    /\ ret.out.stop_loss = Some(9700)

\* C14 (as stated): for atr > 0 and rr_ratio > 0 the stop distance d is
\* 1.5 atr for STRONG signals and 2 atr otherwise; buy-side signals get
\* stop_loss = entry - d < entry < take_profit = entry + d rr_ratio,
\* sell-side signals the mirror image, HOLD null stop_loss and take_profit.
C14_StopAndTargetAroundEntry ==
    (/\ ret.op = "calculate_stop_loss_take_profit"
     /\ call.atr > 0
     /\ call.risk_reward_ratio > 0) =>
        LET d == RMul(Norm(call.atr, 10000),
                      IF call.signal \in {STRONG_BUY, STRONG_SELL}
                      THEN <<3, 2>> ELSE <<2, 1>>)
            entry == Norm(call.entry_price, 100)
            reward == RMul(d, Norm(call.risk_reward_ratio, 10))
            sl == ret.out.stop_loss
            tp == ret.out.take_profit
        IN  /\ call.signal \in {BUY, STRONG_BUY} =>
                /\ Norm(Val(sl), 100) = RSub(entry, d)
                /\ Norm(Val(tp), 100) = RAdd(entry, reward)
                /\ Val(sl) < call.entry_price
                /\ call.entry_price < Val(tp)
            /\ call.signal \in {SELL, STRONG_SELL} =>
                /\ Norm(Val(sl), 100) = RAdd(entry, d)
                /\ Norm(Val(tp), 100) = RSub(entry, reward)
                /\ Val(sl) > call.entry_price
                /\ call.entry_price > Val(tp)
            /\ call.signal = HOLD => IsNone(sl) /\ IsNone(tp)

C16_KellyBounded ==
    ret.op = "calculate_kelly_criterion" =>
        /\ ret.out.raised = NoRaise
        /\ RLeq(<<0, 1>>, Val(ret.out.value))
        /\ RLeq(Val(ret.out.value), <<1, 10>>)
        /\ (call.avg_win > 0 /\ call.avg_loss > 0) =>
              LET full == RSub(Norm(call.win_rate, 100),
                               RDiv(Norm(100 - call.win_rate, 100),
                                    Norm(call.avg_win, call.avg_loss)))
                  quarter == Norm(full[1], 4 * full[2])
              IN  Val(ret.out.value) =
                    IF RLess(quarter, <<0, 1>>) THEN <<0, 1>>
                    ELSE IF RLess(<<1, 10>>, quarter) THEN <<1, 10>>
                    ELSE quarter

\* C17 (as stated): the combiner returns the ML signal at min(0.95, (ml +
\* fallback) / 2 + 0.1) when ML confidence > 0.6 and the signals agree, the
\* ML signal at 0.8 x ml when they disagree, the fallback signal at its
\* confidence plus 0.1 for an agreeing sentiment when ML is absent or at
\* most 0.6, and BUY when close > ema20 else SELL at 0.4 with no fallback.
C17_CombinerRule ==
    (/\ ret.op = "_combine_signals"
     /\ (call.fallback_signal # NoSignal => ~IsNone(call.fallback_confidence))) =>
        LET ml == IF IsNone(call.ml_confidence) THEN 0
                  ELSE Val(call.ml_confidence)
            strong == call.ml_signal # NoSignal /\ ml > 60
            s == IF IsNone(call.sentiment_score) THEN 0
                 ELSE Val(call.sentiment_score)
            boost == IF \/ (call.fallback_signal = BUY /\ s > 1)
                        \/ (call.fallback_signal = SELL /\ s < -1)
                     THEN 10 ELSE 0
            avg == Norm(ml + Val(call.fallback_confidence) + 20, 2)
        IN  IF strong /\ call.ml_signal = call.fallback_signal
            THEN ret.out = << call.ml_signal,
                              IF RLeq(<<95, 1>>, avg) THEN <<95, 1>> ELSE avg >>
            ELSE IF strong
            THEN ret.out = << call.ml_signal, Norm(ml * 4, 5) >>
            ELSE IF call.fallback_signal # NoSignal
            THEN ret.out = << call.fallback_signal,
                              << Val(call.fallback_confidence) + boost, 1 >> >>
            ELSE ret.out = << IF call.close_above_ema THEN BUY ELSE SELL,
                              <<40, 1>> >>

\* C17 (amended): the same rule, with the fallback confidence plus the
\* sentiment boost capped at 0.9.
C17_CombinerRuleCapped ==
    (/\ ret.op = "_combine_signals"
     /\ (call.fallback_signal # NoSignal => ~IsNone(call.fallback_confidence))) =>
        LET ml == IF IsNone(call.ml_confidence) THEN 0
                  ELSE Val(call.ml_confidence)
            strong == call.ml_signal # NoSignal /\ ml > 60
            s == IF IsNone(call.sentiment_score) THEN 0
                 ELSE Val(call.sentiment_score)
            boost == IF \/ (call.fallback_signal = BUY /\ s > 1)
                        \/ (call.fallback_signal = SELL /\ s < -1)
                     THEN 10 ELSE 0
            avg == Norm(ml + Val(call.fallback_confidence) + 20, 2)
        IN  IF strong /\ call.ml_signal = call.fallback_signal
            THEN ret.out = << call.ml_signal,
                              IF RLeq(<<95, 1>>, avg) THEN <<95, 1>> ELSE avg >>
            ELSE IF strong
            THEN ret.out = << call.ml_signal, Norm(ml * 4, 5) >>
            ELSE IF call.fallback_signal # NoSignal
            THEN ret.out = << call.fallback_signal,
                              RMin(<<90, 1>>, << Val(call.fallback_confidence) + boost, 1 >>) >>
            ELSE ret.out = << IF call.close_above_ema THEN BUY ELSE SELL,
                              <<40, 1>> >>

\* C17 witness: a weak ML path and a fallback BUY at 0.9 with agreeing
\* sentiment has been combined into BUY at the 0.9 cap
C17_Witness ==
    /\ ret.op = "_combine_signals"
    /\ call.ml_confidence = Some(50)
    /\ call.fallback_signal = BUY
    /\ call.fallback_confidence = Some(90)
    /\ call.sentiment_score = Some(5)
    /\ ret.out = << BUY, <<90, 1>> >>

\* C18: whenever UnifiedSignalGenerator.generate_signal returns a
\* confidence it lies in [0,1], and so does the confidence _combine_signals
\* returns on each of its branches for an ML probability in [0,1].
C18_ConfidenceInUnitInterval ==
    /\ (ret.op = "generate_signal" /\ ~IsNone(ret.out.confidence)) =>
           (0 <= Val(ret.out.confidence) /\ Val(ret.out.confidence) <= 1000)
    /\ ret.op = "_combine_signals" =>
           (RLeq(<<0, 1>>, ret.out[2]) /\ RLeq(ret.out[2], <<100, 1>>))

\* C18 witness: generate_signal has returned the agreement branch's capped
\* confidence 0.95
C18_Witness ==
    /\ ret.op = "generate_signal"
    /\ call.ml = "ok"
    /\ ret.out.confidence = Some(950)

\* C19: for every list of positions (the empty list included), balance and
\* optional equity curve, check_risk_limits returns without raising;
\* within_limits is false exactly when the risk fraction exceeds
\* max_portfolio_risk, or the average leverage exceeds the portfolio cap, or
\* the supplied curve's drawdown from its running peak exceeds
\* max_drawdown; the positions are left unchanged.
C19_RiskLimitsTotal ==
    ret.op = "check_risk_limits" =>
        LET ps == call.positions
            n == Len(ps)
            risk == total_risk(ps)
            over_risk == call.account_balance > 0
                         /\ risk * 10 > call.account_balance
            over_leverage == n > 0 /\ leverage_sum(ps) > 3 * n
            ec == call.equity_curve
            over_drawdown ==
                /\ ~IsNone(ec)
                /\ Len(Val(ec)) >= 2
                /\ LET peak == running_max(Val(ec))
                       last == Val(ec)[Len(Val(ec))]
                   IN  (peak - last) * 5 > peak
        IN  /\ ret.out.raised = NoRaise
            /\ ret.out.within_limits
                 = Some(~(over_risk \/ over_leverage \/ over_drawdown))
            /\ ret.out.positions = call.positions

\* C21: for a flat series (close equal to EMA20, MACD 0, RSI at 50 or not
\* computable, recent volume equal to the 20-period mean) the probability
\* of _enhanced_fallback_heuristic lies within 0.03 of 0.5 for every noise
\* value in [-0.03, 0.03].
C21_FlatSeriesNearHalf ==
    (/\ predict_ret.op = "predict_direction"
     /\ predict_ret.path = "heuristic"
     /\ df.ema = "below" /\ df.macd = "nonpos"
     /\ df.rsi \in {"mid", "absent"} /\ df.vol = "normal") =>
        /\ RLeq(<<47, 1>>, predict_ret.prob)
        /\ RLeq(predict_ret.prob, <<53, 1>>)

\* C22: once load_model has cached an artifact under a key, no later
\* load_model / predict_direction call replaces, removes or alters that
\* entry, a call that finds every key cached reads nothing from the
\* artifact store, and a load that fails (returns no artifact) caches
\* nothing.
C22_CacheLoadedOnceNeverMutated ==
    [][ /\ \A k \in CacheKeys :
              ~IsNone(model_cache[k]) => model_cache'[k] = model_cache[k]
        /\ (\A k \in CacheKeys : ~IsNone(model_cache[k])) =>
              predict_ret'.reads = 0
        /\ ~predict_ret'.loaded => model_cache' = model_cache ]_vars

\* C24: one _fetch_from_api call issues at most MAX_RETRIES requests and
\* ends: each timeout or transport error is followed by a wait of
\* min(1 x 2^attempt, 10) seconds except after the last attempt, a response
\* of fewer than 50 candles raises InsufficientDataError at once with no
\* further request, MAX_RETRIES failures raise BinanceAPIError, and the
\* first response of at least 50 candles is returned.
C24_BoundedRetries ==
    ret.op = "_fetch_from_api" =>
        LET sc == call.script
            dataAt == { i \in 1..MAX_RETRIES : sc[i].kind = "data" }
            first == IF dataAt = {} THEN MAX_RETRIES + 1
                     ELSE CHOOSE i \in dataAt : \A j \in dataAt : i <= j
            waits(k) == IF k <= 0 THEN 0
                        ELSE IF k = 1 THEN 1 ELSE 3
        IN  /\ ret.out.requests <= MAX_RETRIES
            /\ IF first > MAX_RETRIES
               THEN /\ ret.out.raised = "BinanceAPIError"
                    /\ ret.out.requests = MAX_RETRIES
                    /\ ret.out.slept = 1 + 2
               ELSE /\ ret.out.requests = first
                    /\ ret.out.slept = waits(first - 1)
                    /\ ret.out.raised = IF sc[first].n < 50
                                        THEN "InsufficientDataError"
                                        ELSE NoRaise

\* C24 witness: two failed requests, each followed by its wait, then a
\* short response that ends the call with InsufficientDataError
C24_Witness ==
    /\ ret.op = "_fetch_from_api"
    /\ call.script[1].kind = "timeout"
    /\ call.script[2].kind = "request_error"
    /\ call.script[3].kind = "data"
    /\ ret.out.raised = "InsufficientDataError"
    /\ ret.out.requests = 3
    /\ ret.out.slept = 3

C30_MlBranchNeedsUpProbability ==
    (ret.op = "generate_signal" /\ ret.out.error = "None") =>
        LET fallback == _generate_fallback_signal(call.row, call.row_access)
        IN  /\ (call.probability <= 60 \/ call.ml = "raise") =>
                   ret.out.signal = fallback[1]
            /\ ret.out.signal # fallback[1] =>
                   (call.probability > 60 /\ call.ml = "ok")

\* C30 witness: a bearish ML prediction (probability 0.2, signal SELL or
\* STRONG_SELL) was overruled by a fallback BUY
C30_Witness ==
    /\ ret.op = "generate_signal"
    /\ ret.out.error = "None"
    /\ call.ml = "ok"
    /\ call.probability = 20
    /\ predict_with_market_analysis(call.row, call.probability,
           Some(call.sentiment_score)).signal \in {SELL, STRONG_SELL}
    /\ ret.out.signal = BUY

\* C23: with several callers in the shared circuit breaker, at most one
\* trial call (one admitted under HALF_OPEN) is inside the upstream function
\* at a time, and an OPEN breaker is never closed before its cooldown has
\* elapsed, in particular not by the success of a call that started before
\* it opened.
C23_OneTrialNoEarlyClose ==
    /\ [](Cardinality({ t \in Threads : pc[t].pos = "func"
                           /\ pc[t].admitted = "HALF_OPEN" }) <= 1)
    /\ [][ (state = "OPEN" /\ state' = "CLOSED") =>
              now - Val(last_failure_time) > timeout ]_vars

\* C26: without any lock, concurrent get, set, delete and expiry removal on
\* the same key of the shared cache never raise, and after a write the
\* entry holds the value of the writer that stored last.
C26_LockFreeCacheNeverRaises ==
    /\ [](\A t \in Threads : pc[t].raised = NoRaise)
    /\ [][ \A t \in Threads, k \in FetchKeys :
             (pc[t].pos = "set" /\ pc'[t].pos = "idle") =>
                 Val(cache'[k]).value = t ]_vars

\* C27: for every sequence of start() and stop() calls, stop() directly
\* followed by start() during an iteration included, at most one loop
\* thread is processing sessions at any time, and once stop() has been
\* called and no start() follows, every loop thread eventually exits.
C27_AtMostOneTradingLoop ==
    /\ [](Cardinality({ t \in LoopThreads : pc[t] = "processing" }) <= 1)
    /\ [](stop_event =>
            <>(~stop_event
               \/ \A t \in LoopThreads : pc[t] \in {"unborn", "exited"}))

\* C28: in a pass of _process_session, the first symbol whose signal is BUY
\* with confidence >= 0.6, that has no open position while the session
\* holds fewer than strategy_max_positions positions, gets a position
\* whose entry price is the price of its signal record; the balance does
\* not become negative and the open positions do not exceed
\* strategy_max_positions after the pass.
C28_BuyOpensPositionAtSignalPrice ==
    LET qualifies(i) ==
            /\ call.signals[i].error = "None"
            /\ call.signals[i].signal = "BUY"
            /\ Val(call.signals[i].confidence) >= 600
            /\ \A k \in DOMAIN call.positions :
                  call.positions[k].symbol # call.session.symbols[i]
            /\ Len(call.positions) < call.session.strategy_max_positions
        first(i) == qualifies(i) /\ \A j \in 1..(i - 1) : ~qualifies(j)
    IN  (call.op = "_process_session" /\ ret.op = "_process_session") =>
            /\ \A i \in DOMAIN call.session.symbols :
                  first(i) =>
                     \E k \in DOMAIN ret.out.db_positions :
                        /\ ret.out.db_positions[k].symbol
                              = call.session.symbols[i]
                        /\ ret.out.db_positions[k].average_price
                              = << Val(call.signals[i].price), 1 >>
            /\ ret.out.current_balance[1] >= 0
            /\ Len(ret.out.db_positions)
                  <= call.session.strategy_max_positions

\* C29: signal generation never alters the frame held in the market-data
\* cache: every cached entry has exactly the six OHLCV columns, and every
\* cache hit returns a frame with exactly those columns.
C29_CachedFrameUntouched ==
    /\ \A key \in DOMAIN cache :
          ~IsNone(cache[key]) =>
             heap[Val(cache[key]).value].columns = OhlcvColumns
    /\ (fetch_ret.op \in {"generate_signal", "unified_generate_signal"}
        /\ fetch_ret.hit) =>
          fetch_ret.returned_columns = OhlcvColumns

====
